---- MODULE Spec2Model ----
(***************************************************************************)
(* balance-bot: the balance monitor (runOnce, per-account diffing and      *)
(* fan-out), the file-backed state store, the config store's update chain, *)
(* the three documents' write protocols and the SimpleFIN response cache.  *)
(*                                                                         *)
(* Balances are counted in units of 0.00005, so the 0.0001 tolerance of    *)
(* #processAccount is 2 units.                                             *)
(***************************************************************************)
EXTENDS Integers, Sequences, FiniteSets, TLC

\* ------------------------------------------------------------------ bounds
MaxBalance == 3
MaxCalls == 4
MaxChanges == 1
MaxRestarts == 1
MaxMatched == 2

\* --------------------------------------------------------------- constants
Threshold == 2

\* the cache TTLs a client can be built with: off, and one clock unit
TtlChoices == {0, 1}

Balances == 0..MaxBalance
AccountOrder == <<"a1", "a2">>
AccountIds == {"a1", "a2"}
EmptyDoc == [x \in {} |-> 0]

\* The target lists a monitor can be constructed with.  A target carries
\* appriseUrls, appriseConfigKey, both or neither.
TargetConfigs ==
  { << [name |-> "T1", accountIds |-> <<"a1">>, appriseUrls |-> <<"x">>],
       [name |-> "T2", accountIds |-> <<"a1">>, appriseConfigKey |-> "k1"] >>,
    << [name |-> "T1", accountIds |-> <<"*">>, appriseUrls |-> <<"x">>] >>,
    << [name |-> "T1", accountIds |-> <<"a1">>, appriseUrls |-> <<"x">>],
       [name |-> "T2", accountIds |-> <<"a2", "a1">>,
        appriseUrls |-> <<"x">>, appriseConfigKey |-> "k1"] >>,
    << [name |-> "T1", accountIds |-> <<"a1", "*">>, appriseUrls |-> <<"x">>],
       [name |-> "T2", accountIds |-> <<"a1">>, appriseConfigKey |-> "k1"] >>,
    << [name |-> "T1", accountIds |-> <<"a1">>],
       [name |-> "T2", accountIds |-> <<"a1">>, appriseUrls |-> <<"x">>] >>,
    << >> }

VARIABLES
  targets,      \* BalanceMonitor.targets
  running,      \* BalanceMonitor.running
  pc,           \* where the run in flight is suspended
  fetchReq,     \* the argument of the run's fetchAccounts call
  accounts,     \* the list the fetch returned
  idx,          \* index of the account being processed
  tgt,          \* index of the matched target being notified
  loaded,       \* createStore: "no", "yes", "failed" (statePromise rejected)
  stateMem,     \* createStore: state.accounts, id -> lastBalance
  stateFile,    \* the state document on disk: [ok, accounts]
  upstream,     \* the balances the bridge reports
  ver,          \* per account, the number of the upstream change it shows
  changes,      \* upstream changes so far
  epoch,        \* process restarts so far
  calls,        \* runOnce calls so far
  fetchCalls,   \* fetchAccounts calls issued so far
  lastCall,     \* what the latest runOnce call did: "started" or "skipped";
                \* after a shutdown, how its save() ended: "saved", "save failed"
  runResult,    \* how the latest run ended
  branch,       \* the branch #processAccount took last
  log,          \* delivered notifications: <<account, target, ver, epoch>> -> count
  runClean,     \* no account of the run in flight has raised an error
  prevRun       \* the latest completed run: [done, clean, accounts]

VARIABLES
  cfgFile,      \* the config document on disk: [exists, doc]
  updMut,       \* ConfigStore.update calls in call order: the updater of each
  updPc,        \* per call: "queued", "read", "mutated", "ok", "err"
  updLocal,     \* per call: perform's current, then next
  updInput,     \* per call: the document its updater was given
  cfgOverlap,   \* some update was issued while an earlier one was unsettled
  cfgRejected   \* setSimplefinAccess calls that threw before update

configVars ==
  << cfgFile, updMut, updPc, updLocal, updInput, cfgOverlap, cfgRejected >>

VARIABLES
  disk,         \* per document, the file at its path: [state, rev, mode]
  temp,         \* per document, the temporary file of the write in progress
  wpc,          \* per document, where its write is suspended
  wrev,         \* per document, the revision last handed to a write
  crashes       \* process crashes during the writes so far

fileVars == << disk, temp, wpc, wrev, crashes >>

VARIABLES
  cacheTtl,     \* createSimplefinApi: cacheTtlMs
  hasCacheFile, \* createSimplefinApi: a cacheFilePath was given
  now,          \* Date.now()
  cacheInit,    \* createCacheStore: initialized (the cache file was read)
  cacheEntries, \* createCacheStore: db.data.entries, key -> [value, timestamp]
  cacheDisk,    \* the cache document on disk: [exists, ok, entries]; ok is
                \* FALSE for a file that cannot be read or parsed
  bridgeRev,    \* revision of the data the bridge serves
  httpCalls,    \* upstream HTTP requests issued so far
  fetches,      \* fetchAccounts calls: [key, pc, value, src]
  lastOk,       \* per key, the latest fetch of the current api instance
                \* that resolved from the network
  currentAccessUrl, \* createSimplefinClient: the access URL in use
  retired       \* db.data.entries of the api instances setAccessUrl dropped

cacheVars ==
  << cacheTtl, hasCacheFile, now, cacheInit, cacheEntries, cacheDisk,
     bridgeRev, httpCalls, fetches, lastOk, currentAccessUrl, retired >>

VARIABLES
  sends,        \* sendNotification calls: [arg, pc]
  posts         \* the POST requests issued: [send, endpoint, payload]

notifierVars == << sends, posts >>

VARIABLES
  previousBalance, \* #processAccount: the stored balance of the account
  currentBalance,  \* #processAccount: the balance the bridge reports
  matchedCount,    \* #processAccount: the number of matched targets
  composed         \* the notifications handed to sendNotification so far

formatVars == << previousBalance, currentBalance, matchedCount, composed >>

VARIABLES
  pingRunning,  \* the monitor with health pings: BalanceMonitor.running
  pingRuns,     \* its runOnce calls in call order: [pc, left, fetched,
                \* failed]
  pingUrl,      \* the configured healthchecks.pingUrl
  pings         \* the requests sendPing has made, in order: [run, url]

pingVars == << pingRunning, pingRuns, pingUrl, pings >>

VARIABLES
  task,            \* BalanceBotService.task: an index of tasks, 0 for null
  balanceMonitor,  \* BalanceBotService.balanceMonitor (and stateStore, set
                   \* and cleared together): an index of monitors, 0 for null
  tasks,           \* the cron tasks created so far: [active]
  monitors,        \* the BalanceMonitor objects built so far: [running]
  reloads          \* the reload() calls in call order: [pc, accessUrl,
                   \* cronValid]

serviceVars == << task, balanceMonitor, tasks, monitors, reloads >>

VARIABLES
  listed,       \* the accounts array of one fetch, as the bridge sent it:
                \* records [id, available, balance] of JSON values
  at,           \* the for loop of runOnce: the index of the account in turn
  kept,         \* the state store: account id -> last balance
  outcomes,     \* per account handled: what #processAccount did
  notices       \* the notifications sent so far: [id, delta, balance]

intakeVars == << listed, at, kept, outcomes, notices >>

VARIABLES
  reported,      \* the balance the bridge reports for the watched account
  lastBalance,   \* the state store in memory: the account's lastBalance,
                 \* <<>> when it has none
  fileBalance,   \* the same in the state file
  seen,          \* the balances processed, run by run, since the run that
                 \* stored the baseline or sent the latest notification
  alerts,        \* the notifications sent for the account
  stale          \* since that run, a restart has loaded a lastBalance other
                 \* than the one the store held in memory

driftVars == << reported, lastBalance, fileBalance, seen, alerts, stale >>

monitorVars ==
  << targets, running, pc, fetchReq, accounts, idx, tgt, loaded, stateMem,
     stateFile, upstream, ver, changes, epoch, calls, fetchCalls, lastCall,
     runResult, branch, log, runClean, prevRun >>

vars ==
  << monitorVars, configVars, fileVars, cacheVars, notifierVars, formatVars,
     pingVars, serviceVars, intakeVars, driftVars >>

\* ----------------------------------------------------------------- helpers
Abs(x) == IF x < 0 THEN -x ELSE x

Includes(s, x) == \E i \in 1..Len(s) : s[i] = x

RECURSIVE uniqueEntries(_)
uniqueEntries(items) ==
  IF items = <<>> THEN <<>>
  ELSE LET n == Len(items)
           init == uniqueEntries(SubSeq(items, 1, n - 1))
       IN IF Includes(init, items[n]) THEN init ELSE Append(init, items[n])

RECURSIVE FlatIds(_)
FlatIds(ts) ==
  IF ts = <<>> THEN <<>> ELSE Head(ts).accountIds \o FlatIds(Tail(ts))

\* constructor: explicitAccountIds
explicitAccountIds ==
  uniqueEntries(SelectSeq(FlatIds(targets), LAMBDA id : id # "" /\ id # "*"))

\* constructor: hasWildcardTargets
NoWildcardTargets == FALSE

hasWildcardTargets == Includes(FlatIds(targets), "*")

\* #fetchAccounts: the argument handed to simplefinClient.fetchAccounts
FetchRequest ==
  IF hasWildcardTargets \/ explicitAccountIds = <<>>
    THEN [all |-> TRUE, ids |-> <<>>]
    ELSE [all |-> FALSE, ids |-> explicitAccountIds]

\* #selectTargets
selectExplicitTargets(accountId) ==
  SelectSeq(targets, LAMBDA t : Includes(t.accountIds, accountId))

selectTargets(accountId) ==
  SelectSeq(targets, LAMBDA t : Includes(t.accountIds, accountId)
                                \/ Includes(t.accountIds, "*"))

\* What the bridge answers to a request: the requested accounts, in its order.
BridgeAccounts(req) ==
  LET wanted(i) == req.all \/ Includes(req.ids, AccountOrder[i])
      F[i \in 0..Len(AccountOrder)] ==
        IF i = 0 THEN <<>>
        ELSE IF wanted(i)
          THEN Append(F[i - 1], [id |-> AccountOrder[i],
                                 balance |-> upstream[AccountOrder[i]],
                                 ver |-> ver[AccountOrder[i]]])
          ELSE F[i - 1]
  IN F[Len(AccountOrder)]

\* createStore.getLastBalance: <<>> stands for null
NullAsZero(st, accountId) ==
  IF accountId \in DOMAIN st THEN <<st[accountId]>> ELSE <<0>>

getLastBalance(st, accountId) ==
  IF accountId \in DOMAIN st THEN <<st[accountId]>> ELSE <<>>

\* createStore.setLastBalance: the in-memory half
setLastBalance(st, accountId, balance) ==
  [x \in DOMAIN st \cup {accountId} |-> IF x = accountId THEN balance ELSE st[x]]

\* Math.abs(delta) < 0.0001
NeverSubThreshold(delta) == FALSE

AtMostThreshold(delta) == Abs(delta) <= Threshold

IsSubThreshold(delta) == Abs(delta) < Threshold

\* the guard of runOnce
NeverRunning == FALSE

IsRunning == running

\* ------------------------------------------------ amounts and their format
\* Amounts are counted in the units of the balances, 0.00005: a cent is
\* UnitsPerCent units.
UnitsPerCent == 200

\* $100.00, $150.50, $0.00, -$25.00, $1,234.56, half a cent, the
\* tolerance, $99.995 and $0.01
Amounts ==
  { 2000000, 3010000, 0, -500000, 24691200, 100, Threshold, 1999900, 200 }

Digit(d) == ToString(d)

\* two digits of cents, three digits of a group
Pad2(n) == Digit(n \div 10) \o Digit(n % 10)
Pad3(n) == Digit(n \div 100) \o Pad2(n % 100)

\* Intl.NumberFormat('en-US'): the integer part in groups of three
RECURSIVE Grouped(_)
Grouped(n) ==
  IF n < 1000 THEN ToString(n)
  ELSE Grouped(n \div 1000) \o "," \o Pad3(n % 1000)

\* Intl.NumberFormat: two fraction digits, halves rounded away from zero
RoundToCents(amount) == (Abs(amount) + UnitsPerCent \div 2) \div UnitsPerCent

\* formatCurrency(amount, 'USD')
formatCurrency(amount) ==
  LET cents == RoundToCents(amount)
  IN (IF amount < 0 THEN "-" ELSE "") \o "$" \o Grouped(cents \div 100)
       \o "." \o Pad2(cents % 100)

formattedSignedDelta(delta) == formatCurrency(delta)

\* #processAccount, line 145
formattedDelta(delta) == formatCurrency(Abs(delta))

\* #processAccount, lines 143-155: the three lines of the body
notificationBody(previous, current) ==
  LET delta == current - previous
  IN [trendEmoji |-> IF delta > 0 THEN "up" ELSE "down",
      deltaColor |-> IF delta > 0 THEN "#007700" ELSE "#B00000",
      signedDelta |-> (IF delta > 0 THEN "+" ELSE "-") \o formattedDelta(delta),
      formattedBalance |-> formatCurrency(current)]

LogCount(key) == IF key \in DOMAIN log THEN log[key] ELSE 0

LogAdd(key) ==
  [k \in DOMAIN log \cup {key} |-> IF k = key THEN LogCount(k) + 1 ELSE log[k]]

\* String.prototype.trim on the strings of the model
trim(str) ==
  CASE str = " u2 " -> "u2"
    [] str = " T1 " -> "T1"
    [] str = " a1 " -> "a1"
    [] str = " k1 " -> "k1"
    [] str = " x " -> "x"
    [] str = "  " -> ""
    [] OTHER -> str

\* encodeURIComponent on the keys above
encodeURIComponent(str) == IF str = "k/1" THEN "k%2F1" ELSE str

\* sendNotification: const targets = Array.isArray(urls) ? urls.filter(Boolean) : []
notifierTargets(arg) ==
  IF "urls" \in DOMAIN arg THEN SelectSeq(arg.urls, LAMBDA u : u # "") ELSE <<>>

notifierRawKey(arg) == IF "configKey" \in DOMAIN arg THEN arg.configKey ELSE ""

\* sendNotification: const key = configKey ? configKey.trim() : ""
notifierKey(arg) ==
  IF "configKey" \in DOMAIN arg THEN trim(arg.configKey) ELSE ""

\* sendNotification: the guard of the no-destination error
hasDestination(arg) == notifierTargets(arg) # <<>> \/ notifierKey(arg) # ""

\* sendNotification: endpoint; <<"base">> stands for baseUrl
notifierEndpoint(arg) ==
  IF notifierKey(arg) # ""
    THEN <<"base", encodeURIComponent(notifierKey(arg))>>
    ELSE <<"base">>

payloadUrlsAlways(arg) == notifierTargets(arg)

\* sendNotification: urls: key ? undefined : targets; <<>> stands for undefined
payloadUrls(arg) ==
  IF notifierKey(arg) # "" THEN <<>> ELSE notifierTargets(arg)

\* postNotification: the JSON payload
notifierPayload(arg) ==
  [format |-> "html"]
    @@ (IF payloadUrls(arg) # <<>> THEN [urls |-> payloadUrls(arg)]
        ELSE EmptyDoc)

\* #processAccount: the urls and configKey it hands to sendNotification
notificationArg(target) ==
  (IF "appriseUrls" \in DOMAIN target
     THEN [urls |-> target.appriseUrls] ELSE EmptyDoc)
  @@ (IF "appriseConfigKey" \in DOMAIN target
        THEN [configKey |-> target.appriseConfigKey] ELSE EmptyDoc)

\* -------------------------------------------------------------------- Init
InitMonitorRest ==
  /\ running = FALSE
  /\ pc = "idle"
  /\ fetchReq = [all |-> TRUE, ids |-> <<>>]
  /\ accounts = <<>>
  /\ idx = 0
  /\ tgt = 0
  /\ loaded = "no"
  /\ stateMem = EmptyDoc
  /\ stateFile = [ok |-> TRUE, accounts |-> EmptyDoc]
  /\ upstream = [a \in AccountIds |-> 1]
  /\ ver = [a \in AccountIds |-> 0]
  /\ changes = 0
  /\ epoch = 0
  /\ calls = 0
  /\ fetchCalls = 0
  /\ lastCall = "none"
  /\ runResult = "none"
  /\ branch = "none"
  /\ log = EmptyDoc
  /\ runClean = TRUE
  /\ prevRun = [done |-> FALSE, clean |-> FALSE, accounts |-> <<>>]

InitMonitor == targets \in TargetConfigs /\ InitMonitorRest

\* a service that has not built its monitor
NoMonitor == targets = <<>> /\ InitMonitorRest

InitConfig ==
  /\ cfgFile = [exists |-> FALSE, doc |-> EmptyDoc]
  /\ updMut = <<>>
  /\ updPc = <<>>
  /\ updLocal = <<>>
  /\ updInput = <<>>
  /\ cfgOverlap = FALSE
  /\ cfgRejected = 0

Documents == {"config", "state", "cache"}
NoFile == [state |-> "missing", rev |-> 0, mode |-> "none"]

InitFiles ==
  /\ disk = [d \in Documents |-> NoFile]
  /\ temp = [d \in Documents |-> NoFile]
  /\ wpc = [d \in Documents |-> "idle"]
  /\ wrev = [d \in Documents |-> 0]
  /\ crashes = 0

\* a cache document left behind by an earlier process life
OldCacheDoc ==
  (<<>> :> [value |-> [key |-> <<>>, rev |-> 0, url |-> "u1"],
            timestamp |-> 0])

InitCacheRest ==
  /\ now = 0
  /\ cacheInit = FALSE
  /\ cacheEntries = EmptyDoc
  /\ bridgeRev = 1
  /\ httpCalls = 0
  /\ fetches = <<>>
  /\ lastOk = EmptyDoc
  /\ currentAccessUrl = "u1"
  /\ retired = <<>>

InitCache ==
  /\ cacheTtl \in TtlChoices
  /\ hasCacheFile \in BOOLEAN
  /\ cacheDisk \in {[exists |-> FALSE, ok |-> TRUE, entries |-> EmptyDoc],
                    [exists |-> TRUE, ok |-> TRUE, entries |-> OldCacheDoc],
                    [exists |-> TRUE, ok |-> FALSE, entries |-> EmptyDoc]}
  /\ InitCacheRest

\* a SimpleFIN client that is never used
NoCache ==
  /\ cacheTtl = 0
  /\ hasCacheFile = FALSE
  /\ cacheDisk = [exists |-> FALSE, ok |-> TRUE, entries |-> EmptyDoc]
  /\ InitCacheRest

InitNotifier ==
  /\ sends = <<>>
  /\ posts = <<>>

\* an account with a stored balance, a reported balance and one or two
\* matched targets, about to be processed
InitFormat ==
  /\ previousBalance \in Amounts
  /\ currentBalance \in Amounts
  /\ matchedCount \in 1..MaxMatched
  /\ composed = <<>>

\* the ping URLs a configuration may hold: none, blank, or a check's URL
PingUrls == {"", "  ", "https://hc.example/ping"}

\* the monitor with health pings, as constructed
InitPing ==
  /\ pingRunning = FALSE
  /\ pingRuns = <<>>
  /\ pingUrl \in PingUrls
  /\ pings = <<>>

\* no health check is configured and no run has been asked for
NoPing ==
  /\ pingRunning = FALSE
  /\ pingRuns = <<>>
  /\ pingUrl = ""
  /\ pings = <<>>

\* no account is being processed
NoFormat ==
  /\ previousBalance = 0
  /\ currentBalance = 0
  /\ matchedCount = 0
  /\ composed = <<>>

\* a service just constructed: nothing scheduled, nothing built
InitService ==
  /\ task = 0
  /\ balanceMonitor = 0
  /\ tasks = <<>>
  /\ monitors = <<>>
  /\ reloads = <<>>

\* the JSON values an account field can hold: absent, null, a number
\* (finite or not), or a string
JsonValues ==
  { [t |-> "undefined"], [t |-> "null"],
    [t |-> "number", finite |-> TRUE, v |-> 2000000],
    [t |-> "number", finite |-> FALSE, v |-> 0],
    [t |-> "string", s |-> "150.50"],
    [t |-> "string", s |-> "abc"],
    [t |-> "string", s |-> ""] }

JsonIds == { [t |-> "undefined"], [t |-> "string", s |-> ""],
             [t |-> "string", s |-> "a1"], [t |-> "string", s |-> "a2"] }

ListedAccounts == [id : JsonIds, available : JsonValues, balance : JsonValues]

\* the list of one fetch is the account under study, then an ordinary one
OrdinaryAccount ==
  [id |-> [t |-> "string", s |-> "a2"],
   available |-> [t |-> "undefined"],
   balance |-> [t |-> "string", s |-> "150.50"]]

InitIntake ==
  /\ listed \in { << a, OrdinaryAccount >> : a \in ListedAccounts }
  /\ at = 1
  /\ kept \in { EmptyDoc, [x \in {"a1", "a2"} |-> 2000000] }
  /\ outcomes = <<>>
  /\ notices = <<>>

\* no fetch is being processed
NoIntake ==
  /\ listed = <<>>
  /\ at = 1
  /\ kept = EmptyDoc
  /\ outcomes = <<>>
  /\ notices = <<>>

\* a fresh installation watching one account: no state file yet
InitDrift ==
  /\ reported \in Balances
  /\ lastBalance = <<>>
  /\ fileBalance = <<>>
  /\ seen = <<>>
  /\ alerts = 0
  /\ stale = FALSE

\* the account is not being followed
NoDrift ==
  /\ reported = 0
  /\ lastBalance = <<>>
  /\ fileBalance = <<>>
  /\ seen = <<>>
  /\ alerts = 0
  /\ stale = FALSE

Init ==
  /\ InitMonitor /\ InitConfig /\ InitFiles /\ InitCache /\ InitNotifier
  /\ InitFormat
  /\ InitPing
  /\ InitService
  /\ InitIntake
  /\ InitDrift

\* ----------------------------------------------------------------- actions
otherThanMonitor ==
  << configVars, fileVars, cacheVars, notifierVars, formatVars, pingVars,
     serviceVars, intakeVars, driftVars >>
otherThanConfig ==
  << monitorVars, fileVars, cacheVars, notifierVars, formatVars, pingVars,
     serviceVars, intakeVars, driftVars >>
otherThanFiles ==
  << monitorVars, configVars, cacheVars, notifierVars, formatVars, pingVars,
     serviceVars, intakeVars, driftVars >>
otherThanCache ==
  << monitorVars, configVars, fileVars, notifierVars, formatVars, pingVars,
     serviceVars, intakeVars, driftVars >>
otherThanNotifier ==
  << monitorVars, configVars, fileVars, cacheVars, formatVars, pingVars,
     serviceVars, intakeVars, driftVars >>
otherThanFormat ==
  << monitorVars, configVars, fileVars, cacheVars, notifierVars, pingVars,
     serviceVars, intakeVars, driftVars >>
otherThanPing ==
  << monitorVars, configVars, fileVars, cacheVars, notifierVars, formatVars,
     serviceVars, intakeVars, driftVars >>
otherThanService ==
  << monitorVars, configVars, fileVars, cacheVars, notifierVars, formatVars,
     pingVars, intakeVars, driftVars >>
otherThanIntake ==
  << monitorVars, configVars, fileVars, cacheVars, notifierVars, formatVars,
     pingVars, serviceVars, driftVars >>
otherThanDrift ==
  << monitorVars, configVars, fileVars, cacheVars, notifierVars, formatVars,
     pingVars, serviceVars, intakeVars >>
storeVars == << loaded, stateMem, stateFile >>
envVars == << upstream, ver, changes, epoch >>

\* runOnce, called while a run is in flight: lines 58-63
RunOnceSkipped ==
  /\ calls < MaxCalls
  /\ IsRunning
  /\ calls' = calls + 1
  /\ lastCall' = "skipped"
  /\ UNCHANGED << targets, running, pc, fetchReq, accounts, idx, tgt,
                  storeVars, envVars, fetchCalls, runResult, branch, log,
                  runClean, prevRun >>
  /\ UNCHANGED otherThanMonitor

\* runOnce, accepted: lines 65-69, up to the await of the fetch
RunOnceStart ==
  /\ calls < MaxCalls
  /\ ~IsRunning
  /\ calls' = calls + 1
  /\ lastCall' = "started"
  /\ running' = TRUE
  /\ pc' = "fetch"
  /\ fetchReq' = FetchRequest
  /\ fetchCalls' = fetchCalls + 1
  /\ runResult' = "pending"
  /\ runClean' = TRUE
  /\ accounts' = <<>>
  /\ idx' = 0
  /\ tgt' = 0
  /\ UNCHANGED << targets, storeVars, envVars, branch, log, prevRun >>
  /\ UNCHANGED otherThanMonitor

\* the end of the loop and the finally block: lines 86-90
Finish(clean) ==
  /\ pc' = "idle"
  /\ idx' = 0
  /\ tgt' = 0
  /\ running' = FALSE
  /\ runResult' = "true"
  /\ runClean' = clean
  /\ prevRun' = [done |-> TRUE, clean |-> clean, accounts |-> accounts]

EndsAtFirstAccount(clean) == Finish(clean)

\* the for loop moves on to the next account, or the run ends
Advance(clean) ==
  IF idx < Len(accounts)
    THEN /\ pc' = "account"
         /\ idx' = idx + 1
         /\ tgt' = 0
         /\ runClean' = clean
         /\ UNCHANGED << running, runResult, prevRun >>
    ELSE Finish(clean)

\* the fetch resolves with a non-empty list: lines 69-75
FetchAccountsDone ==
  /\ pc = "fetch"
  /\ BridgeAccounts(fetchReq) # <<>>
  /\ accounts' = BridgeAccounts(fetchReq)
  /\ pc' = "account"
  /\ idx' = 1
  /\ UNCHANGED << targets, running, fetchReq, tgt, storeVars, envVars, calls,
                  fetchCalls, lastCall, runResult, branch, log, runClean,
                  prevRun >>
  /\ UNCHANGED otherThanMonitor

\* an answer without accounts taken as the loss of every account
FetchEmptyClearsState ==
  /\ pc = "fetch"
  /\ pc' = "idle"
  /\ running' = FALSE
  /\ runResult' = "false"
  /\ stateMem' = EmptyDoc
  /\ UNCHANGED << targets, fetchReq, accounts, idx, tgt, loaded, stateFile,
                  envVars, calls, fetchCalls, lastCall, branch, log, runClean,
                  prevRun >>
  /\ UNCHANGED otherThanMonitor

\* the fetch resolves with no accounts: lines 70-73, then finally
FetchAccountsEmpty ==
  /\ pc = "fetch"
  /\ pc' = "idle"
  /\ running' = FALSE
  /\ runResult' = "false"
  /\ UNCHANGED << targets, fetchReq, accounts, idx, tgt, storeVars, envVars,
                  calls, fetchCalls, lastCall, branch, log, runClean, prevRun >>
  /\ UNCHANGED otherThanMonitor

\* the fetch rejects and the guard stays set
FetchThrowsGuardStuck ==
  /\ pc = "fetch"
  /\ pc' = "idle"
  /\ runResult' = "rejected"
  /\ UNCHANGED << targets, running, fetchReq, accounts, idx, tgt, storeVars,
                  envVars, calls, fetchCalls, lastCall, branch, log, runClean,
                  prevRun >>
  /\ UNCHANGED otherThanMonitor

\* the fetch rejects: the finally block runs and runOnce rejects
FetchAccountsThrows ==
  /\ pc = "fetch"
  /\ pc' = "idle"
  /\ running' = FALSE
  /\ runResult' = "rejected"
  /\ UNCHANGED << targets, fetchReq, accounts, idx, tgt, storeVars, envVars,
                  calls, fetchCalls, lastCall, branch, log, runClean, prevRun >>
  /\ UNCHANGED otherThanMonitor

\* createStore.loadState, first use: readStateFile; a document that does not
\* parse rejects statePromise for the life of the process
LoadedAfter == IF loaded = "no" THEN (IF stateFile.ok THEN "yes" ELSE "failed")
               ELSE loaded
MemAfter == IF loaded = "no" /\ stateFile.ok THEN stateFile.accounts ELSE stateMem

\* every account is taken as watched
TakenAsWatched(matched) == FALSE

\* #processAccount: if (!targets.length) return
NoTargetMatches(matched) == matched = <<>>

\* #processAccount up to its first send or state write: lines 103-148
ProcessAccount ==
  /\ pc = "account"
  /\ LET account == accounts[idx]
         matched == selectTargets(account.id)
         previous == getLastBalance(MemAfter, account.id)
         delta == account.balance - previous[1]
     IN IF NoTargetMatches(matched)
          THEN /\ branch' = "unmatched"
               /\ Advance(runClean)
               /\ UNCHANGED << storeVars >>
        ELSE IF LoadedAfter = "failed"
          THEN /\ branch' = "error"
               /\ loaded' = "failed"
               /\ Advance(FALSE)
               /\ UNCHANGED << stateMem, stateFile >>
        ELSE IF previous = <<>>
          THEN /\ branch' = "baseline"
               /\ loaded' = "yes"
               /\ stateMem' = setLastBalance(MemAfter, account.id, account.balance)
               /\ pc' = "write"
               /\ UNCHANGED << stateFile, idx, tgt, running, runResult,
                               runClean, prevRun >>
        ELSE IF IsSubThreshold(delta)
          THEN IF previous[1] # account.balance
                 THEN /\ branch' = "refresh"
                      /\ loaded' = "yes"
                      /\ stateMem' = setLastBalance(MemAfter, account.id,
                                                    account.balance)
                      /\ pc' = "write"
                      /\ UNCHANGED << stateFile, idx, tgt, running, runResult,
                                      runClean, prevRun >>
                 ELSE /\ branch' = "same"
                      /\ loaded' = "yes"
                      /\ stateMem' = MemAfter
                      /\ Advance(runClean)
                      /\ UNCHANGED << stateFile >>
        ELSE /\ branch' = "change"
             /\ loaded' = "yes"
             /\ stateMem' = MemAfter
             /\ pc' = "send"
             /\ tgt' = 1
             /\ UNCHANGED << stateFile, idx, running, runResult, runClean,
                             prevRun >>
  /\ UNCHANGED << targets, fetchReq, accounts, envVars, calls, fetchCalls,
                  lastCall, log >>
  /\ UNCHANGED otherThanMonitor

\* for (const target of targets): targets remain after the one in turn
WriteAfterFirstSend(matched, t) == FALSE

MoreTargets(matched, t) == t < Len(matched)

\* notifier.sendNotification resolves for the target in turn: lines 150-173
SendOk ==
  /\ pc = "send"
  /\ LET account == accounts[idx]
         matched == selectTargets(account.id)
     IN /\ hasDestination(notificationArg(matched[tgt]))
        /\ log' = LogAdd(<<account.id, matched[tgt].name, account.ver, epoch>>)
        /\ IF MoreTargets(matched, tgt)
             THEN /\ tgt' = tgt + 1
                  /\ UNCHANGED << pc, stateMem >>
             ELSE /\ tgt' = 0
                  /\ pc' = "write"
                  /\ stateMem' = setLastBalance(stateMem, account.id,
                                                account.balance)
  /\ UNCHANGED << targets, running, fetchReq, accounts, idx, loaded, stateFile,
                  envVars, calls, fetchCalls, lastCall, runResult, branch,
                  runClean, prevRun >>
  /\ UNCHANGED otherThanMonitor

\* a failed send that stores the new balance all the same
SendFailsStoresBalance ==
  /\ pc = "send"
  /\ hasDestination(notificationArg(selectTargets(accounts[idx].id)[tgt]))
  /\ stateMem' = setLastBalance(stateMem, accounts[idx].id,
                                accounts[idx].balance)
  /\ Advance(FALSE)
  /\ UNCHANGED << targets, fetchReq, accounts, loaded, stateFile, envVars,
                  calls, fetchCalls, lastCall, branch, log >>
  /\ UNCHANGED otherThanMonitor

\* notifier.sendNotification rejects because its POST failed: the catch of
\* lines 78-83
SendFails ==
  /\ pc = "send"
  /\ hasDestination(notificationArg(selectTargets(accounts[idx].id)[tgt]))
  /\ Advance(FALSE)
  /\ UNCHANGED << targets, fetchReq, accounts, storeVars, envVars, calls,
                  fetchCalls, lastCall, branch, log >>
  /\ UNCHANGED otherThanMonitor

\* notifier.sendNotification throws its no-destination error for the target
\* in turn: the same catch
SendNoDestination ==
  /\ pc = "send"
  /\ ~hasDestination(notificationArg(selectTargets(accounts[idx].id)[tgt]))
  /\ Advance(FALSE)
  /\ UNCHANGED << targets, fetchReq, accounts, storeVars, envVars, calls,
                  fetchCalls, lastCall, branch, log >>
  /\ UNCHANGED otherThanMonitor

\* writeStateFile resolves: the document on disk is the in-memory state
WriteStateOk ==
  /\ pc = "write"
  /\ stateFile' = [ok |-> TRUE, accounts |-> stateMem]
  /\ Advance(runClean)
  /\ UNCHANGED << targets, fetchReq, accounts, loaded, stateMem, envVars,
                  calls, fetchCalls, lastCall, branch, log >>
  /\ UNCHANGED otherThanMonitor

\* writeStateFile rejects: writeFile may already have truncated the document
WriteStateFails ==
  /\ pc = "write"
  /\ stateFile' \in {stateFile, [ok |-> FALSE, accounts |-> EmptyDoc]}
  /\ Advance(FALSE)
  /\ UNCHANGED << targets, fetchReq, accounts, loaded, stateMem, envVars,
                  calls, fetchCalls, lastCall, branch, log >>
  /\ UNCHANGED otherThanMonitor

\* the bridge reports a new balance for an account
UpstreamChange ==
  /\ pc = "idle"
  /\ changes < MaxChanges
  /\ \E a \in AccountIds, b \in Balances :
       /\ b # upstream[a]
       /\ upstream' = [upstream EXCEPT ![a] = b]
       /\ ver' = [ver EXCEPT ![a] = changes + 1]
  /\ changes' = changes + 1
  /\ UNCHANGED << targets, running, pc, fetchReq, accounts, idx, tgt,
                  storeVars, epoch, calls, fetchCalls, lastCall, runResult,
                  branch, log, runClean, prevRun >>
  /\ UNCHANGED otherThanMonitor

\* the process stops and a new one starts: memory is lost, the state
\* document stays; a document being written by writeFile may be old, new or
\* truncated
Restart ==
  /\ epoch < MaxRestarts
  /\ epoch' = epoch + 1
  /\ running' = FALSE
  /\ pc' = "idle"
  /\ accounts' = <<>>
  /\ idx' = 0
  /\ tgt' = 0
  /\ loaded' = "no"
  /\ stateMem' = EmptyDoc
  /\ IF pc = "write"
       THEN stateFile' \in {stateFile, [ok |-> TRUE, accounts |-> stateMem],
                            [ok |-> FALSE, accounts |-> EmptyDoc]}
       ELSE stateFile' = stateFile
  /\ runResult' = "none"
  /\ lastCall' = "none"
  /\ runClean' = TRUE
  /\ prevRun' = [done |-> FALSE, clean |-> FALSE, accounts |-> <<>>]
  /\ UNCHANGED << targets, fetchReq, upstream, ver, changes, calls, fetchCalls,
                  branch, log >>
  /\ UNCHANGED otherThanMonitor

\* ------------------------------------------------------------- shutdown
\* the document a write in place leaves when it is cut short
Truncated == [ok |-> FALSE, accounts |-> EmptyDoc]

\* what save() can leave at the path of the state file.  loadState rejects
\* when the file cannot be parsed, and then nothing is written; otherwise
\* writeStateFile writes the loaded document in place.  While the write of a
\* setLastBalance call is in flight, the run is not awaited: that write is on
\* the same path, and process.exit stops it where it is.
AfterSave(saved) ==
  IF LoadedAfter = "failed" THEN {stateFile}
  ELSE IF saved
    THEN {[ok |-> TRUE, accounts |-> MemAfter]}
           \cup (IF pc = "write" THEN {Truncated} ELSE {})
  ELSE {stateFile, Truncated}

\* shutdown on SIGINT or SIGTERM: task.stop(), await stateStore.save() with
\* its failure logged and swallowed, then process.exit(0); a new process
\* starts later
Shutdown ==
  /\ epoch < MaxRestarts
  /\ \E saved \in BOOLEAN :
       /\ saved => LoadedAfter # "failed"
       /\ stateFile' \in AfterSave(saved)
       /\ lastCall' = IF saved THEN "saved" ELSE "save failed"
  /\ epoch' = epoch + 1
  /\ running' = FALSE
  /\ pc' = "idle"
  /\ accounts' = <<>>
  /\ idx' = 0
  /\ tgt' = 0
  /\ loaded' = "no"
  /\ stateMem' = EmptyDoc
  /\ runResult' = "none"
  /\ runClean' = TRUE
  /\ prevRun' = [done |-> FALSE, clean |-> FALSE, accounts |-> <<>>]
  /\ UNCHANGED << targets, fetchReq, upstream, ver, changes, calls, fetchCalls,
                  branch, log >>
  /\ UNCHANGED otherThanMonitor

\* ============================================================ ConfigStore
MaxUpdates == 3

AccessUrls == {"u1", " u2 ", "  ", ""}

RawTargetLists ==
  { <<>>,
    << [name |-> " T1 ", accountIds |-> <<" a1 ", "a1", "  ">>,
        appriseUrls |-> <<>>, appriseConfigKey |-> " k1 "] >>,
    << [name |-> "T2", accountIds |-> <<"*">>,
        appriseUrls |-> <<" x ", "x">>] >>,
    << [name |-> "T3", accountIds |-> <<"a2">>, appriseUrls |-> <<"  ">>,
        appriseConfigKey |-> "  "] >> }

\* normalizeList: trimmed, blanks dropped, first occurrences kept
RECURSIVE normalizeList(_)
normalizeList(value) ==
  IF value = <<>> THEN <<>>
  ELSE LET n == Len(value)
           init == normalizeList(SubSeq(value, 1, n - 1))
           trimmed == trim(value[n])
       IN IF trimmed = "" \/ Includes(init, trimmed) THEN init
          ELSE Append(init, trimmed)

keepsEmptyUrls(target) ==
  LET urls == normalizeList(IF "appriseUrls" \in DOMAIN target
                              THEN target.appriseUrls ELSE <<>>)
      key == IF "appriseConfigKey" \in DOMAIN target
               THEN trim(target.appriseConfigKey) ELSE ""
  IN [name |-> trim(target.name),
      accountIds |-> normalizeList(target.accountIds),
      appriseUrls |-> urls]
     @@ (IF key # "" THEN [appriseConfigKey |-> key] ELSE EmptyDoc)

keepsBlankKey(target) ==
  LET urls == normalizeList(IF "appriseUrls" \in DOMAIN target
                              THEN target.appriseUrls ELSE <<>>)
      key == IF "appriseConfigKey" \in DOMAIN target
               THEN trim(target.appriseConfigKey) ELSE ""
  IN [name |-> trim(target.name),
      accountIds |-> normalizeList(target.accountIds)]
     @@ (IF "appriseConfigKey" \in DOMAIN target
           THEN [appriseConfigKey |-> key] ELSE EmptyDoc)
     @@ (IF urls # <<>> THEN [appriseUrls |-> urls] ELSE EmptyDoc)

\* normalizeTargets, per target
normalizeTarget(target) ==
  LET urls == normalizeList(IF "appriseUrls" \in DOMAIN target
                              THEN target.appriseUrls ELSE <<>>)
      key == IF "appriseConfigKey" \in DOMAIN target
               THEN trim(target.appriseConfigKey) ELSE ""
  IN [name |-> trim(target.name),
      accountIds |-> normalizeList(target.accountIds)]
     @@ (IF key # "" THEN [appriseConfigKey |-> key] ELSE EmptyDoc)
     @@ (IF urls # <<>> THEN [appriseUrls |-> urls] ELSE EmptyDoc)

normalizeTargets(ts) == [i \in 1..Len(ts) |-> normalizeTarget(ts[i])]

defaultConfigTemplate ==
  [accessUrl |-> "", targets |-> <<>>,
   simplefinConfigured |-> FALSE, targetsConfigured |-> FALSE]

applyDefaults(persisted) ==
  [persisted EXCEPT !.targets = normalizeTargets(persisted.targets)]

\* ConfigStore._read
ReadConfig ==
  IF cfgFile.exists THEN applyDefaults(cfgFile.doc) ELSE defaultConfigTemplate

\* ConfigStore._write: the payload handed to atomicWriteJson
WritePayload(data) == [data EXCEPT !.targets = normalizeTargets(data.targets)]

\* the updaters of setSimplefinAccess and setNotificationTargets, and one
\* that throws
Updaters ==
  [op : {"access"}, url : {"u1", "u2"}]
    \cup [op : {"targets"}, targets : RawTargetLists]
    \cup {[op |-> "throw"]}

runUpdater(u, current) ==
  IF u.op = "access"
    THEN [current EXCEPT !.accessUrl = u.url, !.simplefinConfigured = TRUE]
    ELSE LET sanitizedTargets == normalizeTargets(u.targets)
         IN [current EXCEPT !.targets = sanitizedTargets,
                            !.targetsConfigured = Len(sanitizedTargets) > 0]

Settled(k) == updPc[k] \in {"ok", "err"}

\* this._pending = this._pending.then(perform, perform): perform of call k
\* starts when the promise of call k - 1 has settled
StartsAtOnce(k) == TRUE

CanStart(k) == \A j \in 1..(k - 1) : Settled(j)

Enqueue(u) ==
  /\ Len(updMut) < MaxUpdates
  /\ updMut' = Append(updMut, u)
  /\ updPc' = Append(updPc, "queued")
  /\ updLocal' = Append(updLocal, defaultConfigTemplate)
  /\ updInput' = Append(updInput, defaultConfigTemplate)
  /\ cfgOverlap' = (cfgOverlap \/ \E j \in 1..Len(updPc) : ~Settled(j))
  /\ UNCHANGED << cfgFile, cfgRejected >>

\* ConfigStore.update with a caller's updater
Update ==
  /\ Enqueue([op |-> "throw"])
  /\ UNCHANGED otherThanConfig

onlyEmptyIsBlank(accessUrl) == accessUrl = ""

\* setSimplefinAccess: const trimmed = trim(accessUrl); if (!trimmed)
isBlankAccessUrl(accessUrl) == trim(accessUrl) = ""

\* ConfigStore.setSimplefinAccess
SetSimplefinAccess ==
  /\ \E accessUrl \in AccessUrls :
       IF isBlankAccessUrl(accessUrl)
         THEN /\ cfgRejected < MaxUpdates
              /\ cfgRejected' = cfgRejected + 1
              /\ UNCHANGED << cfgFile, updMut, updPc, updLocal, updInput,
                              cfgOverlap >>
         ELSE Enqueue([op |-> "access", url |-> trim(accessUrl)])
  /\ UNCHANGED otherThanConfig

\* ConfigStore.setNotificationTargets, with a caller's list or with the
\* targets a get() returns
SetNotificationTargets ==
  /\ \E ts \in RawTargetLists \cup {ReadConfig.targets} :
       Enqueue([op |-> "targets", targets |-> ts])
  /\ UNCHANGED otherThanConfig

\* perform: const current = await this._read()
PerformRead ==
  /\ \E k \in 1..Len(updPc) :
       /\ updPc[k] = "queued"
       /\ CanStart(k)
       /\ updPc' = [updPc EXCEPT ![k] = "read"]
       /\ updLocal' = [updLocal EXCEPT ![k] = ReadConfig]
  /\ UNCHANGED << cfgFile, updMut, updInput, cfgOverlap, cfgRejected >>
  /\ UNCHANGED otherThanConfig

\* perform: const next = await updater(clone(current))
PerformUpdater ==
  /\ \E k \in 1..Len(updPc) :
       /\ updPc[k] = "read"
       /\ updInput' = [updInput EXCEPT ![k] = updLocal[k]]
       /\ IF updMut[k].op = "throw"
            THEN /\ updPc' = [updPc EXCEPT ![k] = "err"]
                 /\ UNCHANGED updLocal
            ELSE /\ updPc' = [updPc EXCEPT ![k] = "mutated"]
                 /\ updLocal' = [updLocal EXCEPT
                                   ![k] = runUpdater(updMut[k], updLocal[k])]
  /\ UNCHANGED << cfgFile, updMut, cfgOverlap, cfgRejected >>
  /\ UNCHANGED otherThanConfig

\* perform: await this._write(next) resolves
PerformWrite ==
  /\ \E k \in 1..Len(updPc) :
       /\ updPc[k] = "mutated"
       /\ cfgFile' = [exists |-> TRUE, doc |-> WritePayload(updLocal[k])]
       /\ updPc' = [updPc EXCEPT ![k] = "ok"]
  /\ UNCHANGED << updMut, updLocal, updInput, cfgOverlap, cfgRejected >>
  /\ UNCHANGED otherThanConfig

\* a rejected write that leaves the new document at the path
PerformWriteFailsAfterRename ==
  /\ \E k \in 1..Len(updPc) :
       /\ updPc[k] = "mutated"
       /\ cfgFile' = [exists |-> TRUE, doc |-> WritePayload(updLocal[k])]
       /\ updPc' = [updPc EXCEPT ![k] = "err"]
  /\ UNCHANGED << updMut, updLocal, updInput, cfgOverlap, cfgRejected >>
  /\ UNCHANGED otherThanConfig

\* perform: await this._write(next) rejects; the rename never happened
PerformWriteFails ==
  /\ \E k \in 1..Len(updPc) :
       /\ updPc[k] = "mutated"
       /\ updPc' = [updPc EXCEPT ![k] = "err"]
  /\ UNCHANGED << cfgFile, updMut, updLocal, updInput, cfgOverlap,
                  cfgRejected >>
  /\ UNCHANGED otherThanConfig

NextConfig ==
  \/ Update
  \/ SetSimplefinAccess
  \/ SetNotificationTargets
  \/ PerformRead
  \/ PerformUpdater
  \/ PerformWrite
  \/ PerformWriteFails

\* ================================================= the write protocols
MaxWrites == 2
MaxCrashes == 1

\* atomicWriteJson (config): writeFile(tempFile, ..., {mode: 0o600}), chmod,
\* rename.  writeStateFile (state): writeFile(filePath, ...).  writeAtomically
\* (cache): writeFile(temporaryPath, ...), rename.
UsesTempFile(d) == d \in {"config", "cache"}

\* the mode writeFile creates a file with: 0o600 when asked, else 0o666
\* less the umask
CreateMode(d) == IF d = "config" THEN "owner" ELSE "default"

\* writeFile has opened (created or truncated) its file and is writing
BeginWrite ==
  /\ \E d \in Documents :
       /\ wpc[d] = "idle"
       /\ wrev[d] < MaxWrites
       /\ wrev' = [wrev EXCEPT ![d] = wrev[d] + 1]
       /\ wpc' = [wpc EXCEPT ![d] = "writing"]
       /\ IF UsesTempFile(d)
            THEN /\ temp' = [temp EXCEPT ![d] = [state |-> "partial",
                                                 rev |-> wrev[d] + 1,
                                                 mode |-> CreateMode(d)]]
                 /\ UNCHANGED disk
            ELSE /\ disk' = [disk EXCEPT ![d] =
                               [state |-> "partial", rev |-> wrev[d] + 1,
                                mode |-> IF disk[d].state = "missing"
                                           THEN CreateMode(d)
                                           ELSE disk[d].mode]]
                 /\ UNCHANGED temp
  /\ UNCHANGED crashes
  /\ UNCHANGED otherThanFiles

\* writeFile resolves: the whole payload is in the file
EndWrite ==
  /\ \E d \in Documents :
       /\ wpc[d] = "writing"
       /\ IF UsesTempFile(d)
            THEN /\ temp' = [temp EXCEPT ![d].state = "full"]
                 /\ wpc' = [wpc EXCEPT ![d] = "written"]
                 /\ UNCHANGED disk
            ELSE /\ disk' = [disk EXCEPT ![d].state = "full"]
                 /\ wpc' = [wpc EXCEPT ![d] = "idle"]
                 /\ UNCHANGED temp
  /\ UNCHANGED << wrev, crashes >>
  /\ UNCHANGED otherThanFiles

\* atomicWriteJson: fs.chmod(tempFile, 0o600)
Chmod ==
  /\ wpc["config"] = "written"
  /\ temp' = [temp EXCEPT !["config"].mode = "owner"]
  /\ wpc' = [wpc EXCEPT !["config"] = "chmodded"]
  /\ UNCHANGED << disk, wrev, crashes >>
  /\ UNCHANGED otherThanFiles

\* rename(temporary, filePath)
Rename ==
  /\ \E d \in Documents :
       /\ UsesTempFile(d)
       /\ wpc[d] = (IF d = "config" THEN "chmodded" ELSE "written")
       /\ disk' = [disk EXCEPT ![d] = temp[d]]
       /\ temp' = [temp EXCEPT ![d] = NoFile]
       /\ wpc' = [wpc EXCEPT ![d] = "idle"]
  /\ UNCHANGED << wrev, crashes >>
  /\ UNCHANGED otherThanFiles

\* the process dies: the writes in progress stop where they are
Crash ==
  /\ crashes < MaxCrashes
  /\ \E d \in Documents : wpc[d] # "idle"
  /\ crashes' = crashes + 1
  /\ wpc' = [d \in Documents |-> "idle"]
  /\ UNCHANGED << disk, temp, wrev >>
  /\ UNCHANGED otherThanFiles

NextFiles ==
  \/ BeginWrite
  \/ EndWrite
  \/ Chmod
  \/ Rename
  \/ Crash

\* ====================================================== the response cache
MaxFetches == 2
MaxTime == 2
MaxRev == 2
MaxSwitches == 1

\* the accountIds arguments fetchAccounts is called with; <<>> stands for
\* an absent or empty list
Requests ==
  { <<>>, <<"a2", "a1">>, <<" a1 ", "a2", "a1">>, <<"  ">> }

\* accountIds.map((id) => `${id}`.trim()).filter(Boolean)
cleanedIds(accountIds) ==
  SelectSeq([i \in 1..Len(accountIds) |-> trim(accountIds[i])],
            LAMBDA id : id # "")

\* Array.prototype.sort on ids of AccountOrder, which is in code-unit order
sort(ids) == SelectSeq(AccountOrder, LAMBDA id : Includes(ids, id))

\* createCacheKey: <<>> stands for 'accounts:all'
createCacheKey(accountIds) == sort(uniqueEntries(cleanedIds(accountIds)))

\* fetchAccounts: the repeated account parameters of the request URL
uniqueIds(accountIds) == uniqueEntries(cleanedIds(accountIds))

CacheEnabledByPath == hasCacheFile

\* createSimplefinApi: cache = cacheTtlMs > 0 ? createCacheStore(path) : null,
\* and createCacheStore returns null without a path
CacheEnabled == cacheTtl > 0 /\ hasCacheFile

\* ensureDb: db.data after the first read of the cache file
LoadedEntries == IF cacheInit THEN cacheEntries ELSE cacheDisk.entries

ExpiredAtTtl(record) ==
  cacheTtl > 0 /\ now - record.timestamp >= cacheTtl

\* createCacheStore.get: the age test
IsExpired(record) ==
  cacheTtl > 0 /\ now - record.timestamp > cacheTtl

\* createCacheStore.get: <<>> stands for null
CacheGet(key) ==
  IF key \in DOMAIN LoadedEntries /\ ~IsExpired(LoadedEntries[key])
    THEN << LoadedEntries[key].value >>
    ELSE <<>>

readFromCache(key) == IF CacheEnabled THEN CacheGet(key) ELSE <<>>

\* ensureDb: db.read() rejects on a file it cannot read or parse, and
\* initialized stays false; cache.get, readFromCache and fetchAccounts have
\* no handler for it
CacheReadRejects == CacheEnabled /\ ~cacheInit /\ ~cacheDisk.ok

\* what the first half of fetchAccounts does to the cache store
AfterCacheRead ==
  /\ cacheInit' = (cacheInit \/ CacheEnabled)
  /\ cacheEntries' = IF CacheEnabled THEN LoadedEntries ELSE cacheEntries

\* what the bridge, or the network, can answer instead of an accounts
\* array: a non-2xx status with a body, a 2xx body without accounts, or
\* no response at all
BadResponses ==
  { [kind |-> "http", status |-> 500, body |-> "oops", accounts |-> FALSE],
    [kind |-> "http", status |-> 403, body |-> "", accounts |-> FALSE],
    [kind |-> "http", status |-> 200, body |-> "{}", accounts |-> FALSE],
    [kind |-> "network", status |-> 0, body |-> "", accounts |-> FALSE] }

GoodResponse ==
  [kind |-> "http", status |-> 200, body |-> "accounts", accounts |-> TRUE]

NoResponse == [kind |-> "none", status |-> 0, body |-> "", accounts |-> FALSE]

NoError == [kind |-> "none", status |-> 0, body |-> ""]

\* fetchAccounts: the error it rejects with for a response
fetchError(response) ==
  IF response.kind = "network"
    THEN [kind |-> "network", status |-> 0, body |-> ""]
  ELSE IF response.status # 200
    THEN [kind |-> "status", status |-> response.status,
          body |-> response.body]
  ELSE [kind |-> "malformed", status |-> 0, body |-> ""]

\* got(..., { retry: { limit: 0 } })
RetryLimit == 0

RetriesOnce(call) == call.requests <= RetryLimit + 1

\* got: a failed request is repeated while the limit is not used up
RetriesLeft(call) == call.requests <= RetryLimit

\* createSimplefinClient.getApi: the cache store of the api instance a
\* call was started on, which setAccessUrl may have replaced since
storeOf(call) ==
  IF call.api = Len(retired) THEN cacheEntries ELSE retired[call.api + 1]

\* a set that leaves an entry already present as it is
cacheKeep(entries, key, entry) ==
  [k \in DOMAIN entries \cup {key} |->
     IF k \in DOMAIN entries THEN entries[k] ELSE entry]

\* createCacheStore.set: db.data.entries[key] = { value, timestamp }
cacheSet(entries, key, entry) ==
  [k \in DOMAIN entries \cup {key} |-> IF k = key THEN entry ELSE entries[k]]

storeBecomes(call, entries) ==
  IF call.api = Len(retired)
    THEN /\ cacheEntries' = entries
         /\ UNCHANGED retired
    ELSE /\ retired' = [retired EXCEPT ![call.api + 1] = entries]
         /\ UNCHANGED cacheEntries

NewFetch(accountIds, pcv, value, src) ==
  [key |-> createCacheKey(accountIds), wire |-> uniqueIds(accountIds),
   pc |-> pcv, value |-> value, src |-> src, at |-> now,
   requests |-> IF src = "network" THEN 1 ELSE 0,
   response |-> NoResponse, error |-> NoError,
   url |-> currentAccessUrl, api |-> Len(retired)]

\* fetchAccounts: readFromCache returned accounts, which are returned
FetchFromCache ==
  /\ \E accountIds \in Requests :
       LET cached == readFromCache(createCacheKey(accountIds))
       IN /\ Len(fetches) < MaxFetches
          /\ ~CacheReadRejects
          /\ cached # <<>>
          /\ fetches' = Append(fetches,
                               NewFetch(accountIds, "done", cached[1], "cache"))
  /\ AfterCacheRead
  /\ UNCHANGED << cacheTtl, hasCacheFile, now, cacheDisk, bridgeRev,
                  httpCalls, lastOk, currentAccessUrl, retired >>
  /\ UNCHANGED otherThanCache

\* fetchAccounts: readFromCache returned null, the request goes out
FetchFromBridge ==
  /\ \E accountIds \in Requests :
       LET key == createCacheKey(accountIds)
       IN /\ Len(fetches) < MaxFetches
          /\ ~CacheReadRejects
          /\ readFromCache(key) = <<>>
          /\ fetches' = Append(fetches,
                               NewFetch(accountIds, "http",
                                        [key |-> key, rev |-> 0,
                                         url |-> currentAccessUrl],
                                        "network"))
  /\ httpCalls' = httpCalls + 1
  /\ AfterCacheRead
  /\ UNCHANGED << cacheTtl, hasCacheFile, now, cacheDisk, bridgeRev, lastOk,
                  currentAccessUrl, retired >>
  /\ UNCHANGED otherThanCache

\* fetchAccounts: readFromCache rejects because the cache file cannot be
\* read, and fetchAccounts rejects with it before any request goes out
FetchCacheReadFails ==
  /\ \E accountIds \in Requests :
       /\ Len(fetches) < MaxFetches
       /\ CacheReadRejects
       /\ fetches' = Append(fetches,
                            [NewFetch(accountIds, "failed",
                                      [key |-> createCacheKey(accountIds),
                                       rev |-> 0, url |-> currentAccessUrl],
                                      "cache")
                               EXCEPT !.error = [kind |-> "cacheRead",
                                                 status |-> 0, body |-> ""]])
  /\ UNCHANGED << cacheTtl, hasCacheFile, now, cacheInit, cacheEntries,
                  cacheDisk, bridgeRev, httpCalls, lastOk, currentAccessUrl,
                  retired >>
  /\ UNCHANGED otherThanCache

\* the bridge answers with an accounts array; writeToCache, then return
HttpOk ==
  /\ \E c \in 1..Len(fetches) :
       LET key == fetches[c].key
           value == [key |-> key, rev |-> bridgeRev, url |-> fetches[c].url]
           entry == [value |-> value, timestamp |-> now]
           written == cacheSet(storeOf(fetches[c]), key, entry)
       IN /\ fetches[c].pc = "http"
          /\ fetches' = [fetches EXCEPT ![c].pc = "done", ![c].value = value,
                                        ![c].response = GoodResponse]
          /\ lastOk' = IF fetches[c].api = Len(retired)
                          THEN cacheSet(lastOk, key,
                                        [time |-> now, value |-> value])
                          ELSE lastOk
          /\ IF CacheEnabled
               THEN /\ storeBecomes(fetches[c], written)
                    /\ cacheDisk' = [exists |-> TRUE, ok |-> TRUE,
                                     entries |-> written]
               ELSE UNCHANGED << cacheEntries, retired, cacheDisk >>
  /\ UNCHANGED << cacheTtl, hasCacheFile, now, cacheInit, bridgeRev,
                  httpCalls, currentAccessUrl >>
  /\ UNCHANGED otherThanCache

\* the bridge answers, but cache.set rejects on db.write: fetchAccounts
\* rejects with the entry already in memory
HttpOkCacheWriteFails ==
  /\ CacheEnabled
  /\ \E c \in 1..Len(fetches) :
       LET key == fetches[c].key
           entry == [value |-> [key |-> key, rev |-> bridgeRev,
                                url |-> fetches[c].url],
                     timestamp |-> now]
       IN /\ fetches[c].pc = "http"
          /\ fetches' = [fetches EXCEPT
                            ![c].pc = "failed",
                            ![c].response = GoodResponse,
                            ![c].error = [kind |-> "cache", status |-> 0,
                                          body |-> ""]]
          /\ storeBecomes(fetches[c],
                          cacheSet(storeOf(fetches[c]), key, entry))
  /\ UNCHANGED << cacheTtl, hasCacheFile, now, cacheInit, cacheDisk,
                  bridgeRev, httpCalls, lastOk, currentAccessUrl >>
  /\ UNCHANGED otherThanCache

\* a non-2xx status, a network error or a body without an accounts array:
\* the request is repeated while the retry limit allows, then fetchAccounts
\* rejects
HttpFails ==
  /\ \E c \in 1..Len(fetches), response \in BadResponses :
       /\ fetches[c].pc = "http"
       /\ IF RetriesLeft(fetches[c])
            THEN /\ fetches' = [fetches EXCEPT
                                  ![c].requests = fetches[c].requests + 1]
                 /\ httpCalls' = httpCalls + 1
            ELSE /\ fetches' = [fetches EXCEPT
                                  ![c].pc = "failed",
                                  ![c].response = response,
                                  ![c].error = fetchError(response)]
                 /\ UNCHANGED httpCalls
  /\ UNCHANGED << cacheTtl, hasCacheFile, now, cacheInit, cacheEntries,
                  cacheDisk, bridgeRev, lastOk, currentAccessUrl, retired >>
  /\ UNCHANGED otherThanCache

\* Date.now() advances
Tick ==
  /\ now < MaxTime
  /\ now' = now + 1
  /\ UNCHANGED << cacheTtl, hasCacheFile, cacheInit, cacheEntries, cacheDisk,
                  bridgeRev, httpCalls, fetches, lastOk, currentAccessUrl,
                  retired >>
  /\ UNCHANGED otherThanCache

\* the bridge has new data
BridgeChange ==
  /\ bridgeRev < MaxRev
  /\ bridgeRev' = bridgeRev + 1
  /\ UNCHANGED << cacheTtl, hasCacheFile, now, cacheInit, cacheEntries,
                  cacheDisk, httpCalls, fetches, lastOk, currentAccessUrl,
                  retired >>
  /\ UNCHANGED otherThanCache

\* the urls setAccessUrl is called with
NextAccessUrls == {" u2 ", "  "}

\* a call of the current api instance is waiting for the bridge; only such
\* a call can reach the instance's cache store once the instance is dropped
InFlight ==
  \E c \in 1..Len(fetches) :
    fetches[c].pc = "http" /\ fetches[c].api = Len(retired)

\* setAccessUrl: a blank url throws; otherwise the url is replaced and the
\* api instance dropped, so the next getApi builds a new createSimplefinApi,
\* with a new cache store over the same cache file
SetAccessUrl ==
  /\ Len(retired) < MaxSwitches
  /\ \E nextAccessUrl \in NextAccessUrls :
       IF trim(nextAccessUrl) = ""
         THEN UNCHANGED << currentAccessUrl, retired, cacheInit, cacheEntries,
                           lastOk >>
         ELSE /\ currentAccessUrl' = trim(nextAccessUrl)
              /\ lastOk' = EmptyDoc
              /\ retired' = Append(retired, IF InFlight THEN cacheEntries
                                                         ELSE EmptyDoc)
              /\ cacheInit' = FALSE
              /\ cacheEntries' = EmptyDoc
  /\ UNCHANGED << cacheTtl, hasCacheFile, now, cacheDisk, bridgeRev,
                  httpCalls, fetches >>
  /\ UNCHANGED otherThanCache

\* one createSimplefinApi instance and the bridge
NextCache ==
  \/ FetchFromCache
  \/ FetchFromBridge
  \/ FetchCacheReadFails
  \/ HttpOk
  \/ HttpOkCacheWriteFails
  \/ HttpFails
  \/ Tick
  \/ BridgeChange

\* createSimplefinClient: the api instance, replaced by setAccessUrl
NextClient ==
  \/ SetAccessUrl
  \/ NextCache

\* ============================================================ the notifier
MaxSends == 2

\* the urls and configKey arguments sendNotification is called with; a
\* record without the field stands for undefined
SendArgs ==
  { u @@ k :
      u \in { EmptyDoc, [urls |-> <<>>], [urls |-> <<"">>],
              [urls |-> <<"", "x">>] },
      k \in { EmptyDoc, [configKey |-> ""], [configKey |-> "  "],
              [configKey |-> " k1 "], [configKey |-> "k/1"] } }

\* sendNotification up to the await of the POST, or its throw
SendNotification ==
  /\ Len(sends) < MaxSends
  /\ \E arg \in SendArgs :
       IF hasDestination(arg)
         THEN /\ sends' = Append(sends, [arg |-> arg, pc |-> "posting"])
              /\ posts' = Append(posts, [send |-> Len(sends) + 1,
                                         endpoint |-> notifierEndpoint(arg),
                                         payload |-> notifierPayload(arg)])
         ELSE /\ sends' = Append(sends, [arg |-> arg, pc |-> "nodest"])
              /\ UNCHANGED posts
  /\ UNCHANGED otherThanNotifier

\* got.post resolves
PostOk ==
  /\ \E c \in 1..Len(sends) :
       /\ sends[c].pc = "posting"
       /\ sends' = [sends EXCEPT ![c].pc = "ok"]
  /\ UNCHANGED posts
  /\ UNCHANGED otherThanNotifier

\* got.post rejects (retry: { limit: 0 }): sendNotification rejects
PostFails ==
  /\ \E c \in 1..Len(sends) :
       /\ sends[c].pc = "posting"
       /\ sends' = [sends EXCEPT ![c].pc = "rejected"]
  /\ UNCHANGED posts
  /\ UNCHANGED otherThanNotifier

NextNotifier ==
  \/ SendNotification
  \/ PostOk
  \/ PostFails

\* ================================================= the notification body
\* #processAccount, lines 150-162: the body for the next matched target is
\* built and handed to sendNotification
ComposeNotification ==
  /\ Len(composed) < matchedCount
  /\ ~IsSubThreshold(currentBalance - previousBalance)
  /\ composed' = Append(composed,
                        [title |-> "Balance update",
                         body |-> notificationBody(previousBalance,
                                                   currentBalance)])
  /\ UNCHANGED << previousBalance, currentBalance, matchedCount >>
  /\ UNCHANGED otherThanFormat

\* the change is below the tolerance: #processAccount returns at line 140
\* without building a body
ReturnWithoutNotification ==
  /\ matchedCount > 0
  /\ IsSubThreshold(currentBalance - previousBalance)
  /\ matchedCount' = 0
  /\ UNCHANGED << previousBalance, currentBalance, composed >>
  /\ UNCHANGED otherThanFormat

NextFormat ==
  \/ ComposeNotification
  \/ ReturnWithoutNotification

\* ========================================= runOnce with health pings
\* The runOnce that pings a health check at its start and at its end.  A
\* call is at "startPing", "fetch", "account" (left: accounts still to be
\* processed) or "endPing", or has settled as "returned", "rejected" or
\* "skipped"; fetched is the accountsFetched of the end ping's payload.
\* buildPingUrl: the URL of a variant of the ping
buildPingUrl(baseUrl, variant) ==
  IF baseUrl = "" THEN ""
  ELSE CASE variant = "start" -> baseUrl \o "/start"
         [] variant = "fail" -> baseUrl \o "/fail"
         [] OTHER -> baseUrl

\* sendPing: one request to the variant's URL; a failed request is logged
\* and not repeated
sendPing(sent, baseUrl, run, variant) ==
  LET url == buildPingUrl(baseUrl, variant)
  IN  IF url = "" THEN sent ELSE Append(sent, [run |-> run, url |-> url])

\* notifyStart, notifySuccess and notifyFailure of the client made by
\* createHealthchecksClient: noopAsync when the trimmed pingUrl is empty
notify(sent, run, variant) ==
  IF trim(pingUrl) = "" THEN sent
  ELSE sendPing(sent, trim(pingUrl), run, variant)

\* a finally block that pings only for a run that did not throw
EnterFinallyPingsOnSuccessOnly(r, failed) ==
  /\ pingRuns' = [pingRuns EXCEPT ![r].pc = "endPing", ![r].left = 0,
                                 ![r].failed = failed]
  /\ pingRunning' = FALSE
  /\ pings' = IF failed THEN pings ELSE notify(pings, r, "success")

\* the finally block up to its await of notifySuccess or notifyFailure:
\* running = false comes first
EnterFinally(r, failed) ==
  /\ pingRuns' = [pingRuns EXCEPT ![r].pc = "endPing", ![r].left = 0,
                                 ![r].failed = failed]
  /\ pingRunning' = FALSE
  /\ pings' = notify(pings, r, IF failed THEN "fail" ELSE "success")

\* runOnce, called while running is set
PingRunOnceSkipped ==
  /\ Len(pingRuns) < MaxCalls
  /\ pingRunning
  /\ pingRuns' = Append(pingRuns, [pc |-> "skipped", left |-> 0,
                                   fetched |-> 0, failed |-> FALSE])
  /\ UNCHANGED << pingRunning, pingUrl, pings >>
  /\ UNCHANGED otherThanPing

\* runOnce, accepted: running = true, then await notifyStart()
PingRunOnceStart ==
  /\ Len(pingRuns) < MaxCalls
  /\ ~pingRunning
  /\ pingRunning' = TRUE
  /\ pingRuns' = Append(pingRuns, [pc |-> "startPing", left |-> 0,
                                   fetched |-> 0, failed |-> FALSE])
  /\ pings' = notify(pings, Len(pingRuns) + 1, "start")
  /\ UNCHANGED pingUrl
  /\ UNCHANGED otherThanPing

\* notifyStart resolves (sendPing catches its own errors): the fetch starts
StartPingDone ==
  /\ \E r \in 1..Len(pingRuns) :
       /\ pingRuns[r].pc = "startPing"
       /\ pingRuns' = [pingRuns EXCEPT ![r].pc = "fetch"]
  /\ UNCHANGED << pingRunning, pingUrl, pings >>
  /\ UNCHANGED otherThanPing

\* the fetch resolves with n accounts; with none, runOnce returns false
\* through the finally block
PingFetchDone ==
  /\ \E r \in 1..Len(pingRuns), n \in 0..Len(AccountOrder) :
       /\ pingRuns[r].pc = "fetch"
       /\ IF n = 0
            THEN EnterFinally(r, FALSE)
            ELSE /\ pingRuns' = [pingRuns EXCEPT ![r].pc = "account",
                                                 ![r].left = n,
                                                 ![r].fetched = n]
                 /\ UNCHANGED << pingRunning, pings >>
  /\ UNCHANGED pingUrl
  /\ UNCHANGED otherThanPing

\* the fetch rejects: catch, then the finally block
PingFetchThrows ==
  /\ \E r \in 1..Len(pingRuns) :
       /\ pingRuns[r].pc = "fetch"
       /\ EnterFinally(r, TRUE)
  /\ UNCHANGED pingUrl
  /\ UNCHANGED otherThanPing

\* #processAccount settles for the account in turn (an error is caught and
\* counted); after the last one, the finally block
PingAccountDone ==
  /\ \E r \in 1..Len(pingRuns) :
       /\ pingRuns[r].pc = "account"
       /\ IF pingRuns[r].left > 1
            THEN /\ pingRuns' = [pingRuns EXCEPT ![r].left = @ - 1]
                 /\ UNCHANGED << pingRunning, pings >>
            ELSE EnterFinally(r, FALSE)
  /\ UNCHANGED pingUrl
  /\ UNCHANGED otherThanPing

\* notifySuccess or notifyFailure resolves: runOnce returns, or rethrows
\* the error of the fetch
EndPingDone ==
  /\ \E r \in 1..Len(pingRuns) :
       /\ pingRuns[r].pc = "endPing"
       /\ pingRuns' = [pingRuns EXCEPT
                         ![r].pc = IF pingRuns[r].failed THEN "rejected"
                                                        ELSE "returned"]
  /\ UNCHANGED << pingRunning, pingUrl, pings >>
  /\ UNCHANGED otherThanPing

NextPing ==
  \/ PingRunOnceSkipped
  \/ PingRunOnceStart
  \/ StartPingDone
  \/ PingFetchDone
  \/ PingFetchThrows
  \/ PingAccountDone
  \/ EndPingDone

\* ----------------------------------------------------- BalanceBotService
MaxReloads == 3

\* task.stop() on the task held in this.task, if any
stopped(ts, t) == IF t = 0 THEN ts ELSE [ts EXCEPT ![t].active = FALSE]

\* the monitor a tick of a cron task calls runOnce on: queueCheck reads
\* this.balanceMonitor when it is called; 0 when the field is null
queueCheckTarget == balanceMonitor

\* runOnce() called on monitor m up to its first await: skipped when that
\* monitor's own guard is set, otherwise the guard is set and a run begins
runOnceOn(ms, m) ==
  IF m = 0 \/ ms[m].running THEN ms ELSE [ms EXCEPT ![m].running = TRUE]

\* reload() is called: it awaits configStore.get()
ReloadCall ==
  /\ Len(reloads) < MaxReloads
  /\ reloads' = Append(reloads, [pc |-> "get", accessUrl |-> FALSE,
                                 cronValid |-> FALSE])
  /\ UNCHANGED << task, balanceMonitor, tasks, monitors >>
  /\ UNCHANGED otherThanService

\* configStore.get() resolves; _teardown() runs up to its await: the task in
\* this.task is stopped and the field cleared; with a state store it awaits
\* save(), without one it clears the fields at once
ReloadGotConfig ==
  /\ \E r \in 1..Len(reloads), hasUrl \in BOOLEAN, valid \in BOOLEAN :
       /\ reloads[r].pc = "get"
       /\ tasks' = stopped(tasks, task)
       /\ task' = 0
       /\ reloads' = [reloads EXCEPT
                        ![r] = [pc |-> IF balanceMonitor = 0 THEN "build"
                                                            ELSE "save",
                                accessUrl |-> hasUrl, cronValid |-> valid]]
  /\ UNCHANGED << balanceMonitor, monitors >>
  /\ UNCHANGED otherThanService

\* stateStore.save() settles (a failure is logged and swallowed) and
\* _teardown clears simplefinClient, notifier, stateStore, balanceMonitor
TeardownSaved ==
  /\ \E r \in 1..Len(reloads) :
       /\ reloads[r].pc = "save"
       /\ reloads' = [reloads EXCEPT ![r].pc = "build"]
  /\ balanceMonitor' = 0
  /\ UNCHANGED << task, tasks, monitors >>
  /\ UNCHANGED otherThanService

\* reload() continues after _teardown(): without an access URL it returns;
\* otherwise it builds a monitor, and with a valid cron expression creates
\* the task, calls queueCheck() and starts the task
ReloadBuild ==
  /\ \E r \in 1..Len(reloads) :
       /\ reloads[r].pc = "build"
       /\ IF ~reloads[r].accessUrl
            THEN /\ reloads' = [reloads EXCEPT ![r].pc = "done"]
                 /\ UNCHANGED << task, balanceMonitor, tasks, monitors >>
            ELSE /\ balanceMonitor' = Len(monitors) + 1
                 /\ IF ~reloads[r].cronValid
                      THEN /\ monitors' = Append(monitors,
                                                 [running |-> FALSE])
                           /\ reloads' = [reloads EXCEPT ![r].pc = "rejected"]
                           /\ UNCHANGED << task, tasks >>
                      ELSE /\ monitors' =
                                runOnceOn(Append(monitors,
                                                 [running |-> FALSE]),
                                          Len(monitors) + 1)
                           /\ tasks' = Append(tasks, [active |-> TRUE])
                           /\ task' = Len(tasks) + 1
                           /\ reloads' = [reloads EXCEPT ![r].pc = "done"]
  /\ UNCHANGED otherThanService

\* a started cron task fires: queueCheck() calls runOnce on the monitor the
\* service holds at that moment (a TypeError when it holds none)
CronTick ==
  /\ \E t \in 1..Len(tasks) :
       /\ tasks[t].active
       /\ monitors' = runOnceOn(monitors, queueCheckTarget)
  /\ UNCHANGED << task, balanceMonitor, tasks, reloads >>
  /\ UNCHANGED otherThanService

\* the run in flight on a monitor ends and its guard is cleared
RunEnds ==
  /\ \E m \in 1..Len(monitors) :
       /\ monitors[m].running
       /\ monitors' = [monitors EXCEPT ![m].running = FALSE]
  /\ UNCHANGED << task, balanceMonitor, tasks, reloads >>
  /\ UNCHANGED otherThanService

NextService ==
  \/ ReloadCall
  \/ ReloadGotConfig
  \/ TeardownSaved
  \/ ReloadBuild
  \/ CronTick
  \/ RunEnds

\* -------------------------------------- #processAccount on bridge records
\* Number(text) for the texts of JsonValues; <<>> stands for NaN.  The
\* empty string converts to 0.
NumberOf(text) ==
  CASE text = "150.50" -> << 3010000 >>
    [] text = "" -> << 0 >>
    [] OTHER -> <<>>

\* parseNumeric; <<>> stands for null
parseNumeric(value) ==
  IF value.t = "number"
    THEN (IF value.finite THEN << value.v >> ELSE <<>>)
  ELSE IF value.t = "string" THEN NumberOf(value.s)
  ELSE <<>>

\* resolveBalanceInfo: availableAmount ?? balanceAmount; <<>> stands for null
resolveBalanceInfo(account) ==
  LET availableAmount == parseNumeric(account.available)
      balanceAmount == parseNumeric(account.balance)
  IN IF availableAmount # <<>> THEN availableAmount ELSE balanceAmount

\* !account?.id
lacksId(account) ==
  IF account.id.t = "string" THEN account.id.s = "" ELSE TRUE

\* #processAccount returns early: no id, or no balance could be resolved
SkipAccount ==
  /\ at <= Len(listed)
  /\ LET account == listed[at]
     IN /\ IF lacksId(account) THEN TRUE
                              ELSE resolveBalanceInfo(account) = <<>>
        /\ outcomes' = Append(outcomes, IF lacksId(account) THEN "no id"
                                                           ELSE "no balance")
  /\ at' = at + 1
  /\ UNCHANGED << listed, kept, notices >>
  /\ UNCHANGED otherThanIntake

\* #processAccount with a wildcard target, a store and a notifier that work:
\* baseline, sub-threshold refresh or notification, then the new balance is
\* stored
HandleAccount ==
  /\ at <= Len(listed)
  /\ LET account == listed[at]
         info == resolveBalanceInfo(account)
         id == account.id.s
         previous == getLastBalance(kept, id)
         delta == info[1] - previous[1]
     IN /\ ~lacksId(account)
        /\ info # <<>>
        /\ kept' = setLastBalance(kept, id, info[1])
        /\ IF previous = <<>>
             THEN /\ outcomes' = Append(outcomes, "baseline")
                  /\ UNCHANGED notices
           ELSE IF IsSubThreshold(delta)
             THEN /\ outcomes' = Append(outcomes, "same")
                  /\ UNCHANGED notices
           ELSE /\ outcomes' = Append(outcomes, "change")
                /\ notices' = Append(notices, [id |-> id, delta |-> delta,
                                               balance |-> info[1]])
  /\ at' = at + 1
  /\ UNCHANGED listed
  /\ UNCHANGED otherThanIntake

NextIntake ==
  \/ SkipAccount
  \/ HandleAccount

\* ------------------------------------ one watched account, run after run
\* a sub-threshold difference leaves the stored value as it was
keptAfterDrift(previous, current) == previous

\* if (previousBalance !== currentBalance) setLastBalance(id, currentBalance)
storedAfterDrift(previous, current) == current

\* the bridge reports another balance for the account
BalanceMoves ==
  /\ \E b \in Balances :
       /\ b # reported
       /\ reported' = b
  /\ UNCHANGED << lastBalance, fileBalance, seen, alerts, stale >>
  /\ UNCHANGED otherThanDrift

\* one run processes the account: #processAccount from getLastBalance on.
\* setLastBalance sets the value in memory and then writes the file, which
\* may fail (written); sendNotification may reject (delivered), and then
\* nothing is stored.
ProcessWatchedAccount ==
  /\ Len(seen) < MaxCalls
  /\ \E written \in BOOLEAN, delivered \in BOOLEAN :
       LET current == reported
           previous == lastBalance
           path == Append(seen, current)
           stored(b) == /\ lastBalance' = << b >>
                        /\ fileBalance' = IF written THEN << b >>
                                                     ELSE fileBalance
       IN IF previous = <<>>
            THEN /\ delivered
                 /\ stored(current)
                 /\ seen' = << current >>
                 /\ stale' = FALSE
                 /\ UNCHANGED alerts
          ELSE IF IsSubThreshold(current - previous[1])
            THEN /\ delivered
                 /\ IF previous[1] # current
                      THEN stored(storedAfterDrift(previous[1],
                                                   current))
                      ELSE written /\ UNCHANGED << lastBalance, fileBalance >>
                 /\ seen' = path
                 /\ UNCHANGED << alerts, stale >>
          ELSE IF delivered
            THEN /\ alerts < MaxSends
                 /\ alerts' = alerts + 1
                 /\ stored(current)
                 /\ seen' = << current >>
                 /\ stale' = FALSE
          ELSE /\ written
               /\ seen' = path
               /\ UNCHANGED << lastBalance, fileBalance, alerts, stale >>
  /\ UNCHANGED reported
  /\ UNCHANGED otherThanDrift

\* the process stops and a new one starts: the store loads the state file
ProcessRestarts ==
  /\ lastBalance' = fileBalance
  /\ stale' = (stale \/ fileBalance # lastBalance)
  /\ UNCHANGED << reported, fileBalance, seen, alerts >>
  /\ UNCHANGED otherThanDrift

NextDrift ==
  \/ BalanceMoves
  \/ ProcessWatchedAccount
  \/ ProcessRestarts

NextMonitor ==
  \/ RunOnceSkipped
  \/ RunOnceStart
  \/ FetchAccountsDone
  \/ FetchAccountsEmpty
  \/ FetchAccountsThrows
  \/ ProcessAccount
  \/ SendOk
  \/ SendFails
  \/ SendNoDestination
  \/ WriteStateOk
  \/ WriteStateFails
  \/ UpstreamChange
  \/ Restart

\* the monitor of src/index.js, with its shutdown handler
NextLifecycle ==
  \/ Shutdown
  \/ NextMonitor

Next ==
  \/ NextLifecycle \/ NextConfig \/ NextFiles \/ NextClient \/ NextNotifier
  \/ NextFormat
  \/ NextPing
  \/ NextService
  \/ NextIntake
  \/ NextDrift

Spec == Init /\ [][Next]_vars

InitSpecMonitor ==
  /\ InitMonitor /\ InitConfig /\ InitFiles /\ NoCache /\ InitNotifier
  /\ NoFormat
  /\ NoPing
  /\ InitService
  /\ NoIntake
  /\ NoDrift
SpecMonitor == InitSpecMonitor /\ [][NextMonitor]_vars

InitSpecConfig ==
  /\ NoMonitor /\ InitConfig /\ InitFiles /\ NoCache /\ InitNotifier
  /\ NoFormat
  /\ NoPing
  /\ InitService
  /\ NoIntake
  /\ NoDrift
SpecConfig == InitSpecConfig /\ [][NextConfig]_vars

InitSpecFiles ==
  /\ NoMonitor /\ InitConfig /\ InitFiles /\ NoCache /\ InitNotifier
  /\ NoFormat
  /\ NoPing
  /\ InitService
  /\ NoIntake
  /\ NoDrift
SpecFiles == InitSpecFiles /\ [][NextFiles]_vars

InitSpecCache ==
  /\ NoMonitor /\ InitConfig /\ InitFiles /\ InitCache /\ InitNotifier
  /\ NoFormat
  /\ NoPing
  /\ InitService
  /\ NoIntake
  /\ NoDrift
SpecCache == InitSpecCache /\ [][NextCache]_vars

InitSpecClient ==
  /\ NoMonitor /\ InitConfig /\ InitFiles /\ InitCache /\ InitNotifier
  /\ NoFormat
  /\ NoPing
  /\ InitService
  /\ NoIntake
  /\ NoDrift
SpecClient == InitSpecClient /\ [][NextClient]_vars

InitSpecNotifier ==
  /\ NoMonitor /\ InitConfig /\ InitFiles /\ NoCache /\ InitNotifier
  /\ NoFormat
  /\ NoPing
  /\ InitService
  /\ NoIntake
  /\ NoDrift
SpecNotifier == InitSpecNotifier /\ [][NextNotifier]_vars

InitSpecPing ==
  /\ NoMonitor /\ InitConfig /\ InitFiles /\ NoCache /\ InitNotifier
  /\ NoFormat
  /\ InitPing
  /\ InitService
  /\ NoIntake
  /\ NoDrift
SpecPing == InitSpecPing /\ [][NextPing]_vars

InitSpecFormat ==
  /\ NoMonitor /\ InitConfig /\ InitFiles /\ NoCache /\ InitNotifier
  /\ InitFormat
  /\ NoPing
  /\ InitService
  /\ NoIntake
  /\ NoDrift
SpecFormat == InitSpecFormat /\ [][NextFormat]_vars

InitSpecService ==
  /\ NoMonitor /\ InitConfig /\ InitFiles /\ NoCache /\ InitNotifier
  /\ NoFormat
  /\ NoPing
  /\ InitService
  /\ NoIntake
  /\ NoDrift
SpecService == InitSpecService /\ [][NextService]_vars

InitSpecIntake ==
  /\ NoMonitor /\ InitConfig /\ InitFiles /\ NoCache /\ InitNotifier
  /\ NoFormat
  /\ NoPing
  /\ InitService
  /\ InitIntake
  /\ NoDrift
SpecIntake == InitSpecIntake /\ [][NextIntake]_vars

InitSpecDrift ==
  /\ NoMonitor /\ InitConfig /\ InitFiles /\ NoCache /\ InitNotifier
  /\ NoFormat
  /\ NoPing
  /\ InitService
  /\ NoIntake
  /\ InitDrift
SpecDrift == InitSpecDrift /\ [][NextDrift]_vars

InitSpecLifecycle ==
  /\ InitMonitor /\ InitConfig /\ InitFiles /\ NoCache /\ InitNotifier
  /\ NoFormat
  /\ NoPing
  /\ InitService
  /\ NoIntake
  /\ NoDrift
SpecLifecycle == InitSpecLifecycle /\ [][NextLifecycle]_vars

\* ------------------------------------------------------------------ claims
\* a step of the run in flight that is neither a runOnce call nor a restart
RunStep == calls' = calls /\ epoch' = epoch

\* what getLastBalance can see: the loaded state, or the document on disk
StoreReadable == loaded = "yes" \/ (loaded = "no" /\ stateFile.ok)
Stored == IF loaded = "yes" THEN stateMem ELSE stateFile.accounts

BalancesOf(accts) == [i \in 1..Len(accts) |-> <<accts[i].id, accts[i].balance>>]

\* C1: a runOnce call made while a run is in flight answers "skipped" and
\* changes nothing else (no fetch, no notification, no state write, the run
\* in flight is not disturbed); and a fetch is only ever issued by a runOnce
\* call that found the monitor idle, so no run is started later on behalf of
\* a dropped call.
C1_OverlappingRunIsDropped ==
  [][ /\ (calls' # calls /\ running) =>
            /\ lastCall' = "skipped"
            /\ UNCHANGED << fetchCalls, log, stateMem, stateFile, loaded,
                            running, pc, accounts, idx, tgt, runResult >>
      /\ (fetchCalls' # fetchCalls) =>
            (calls' = calls + 1 /\ ~running /\ fetchCalls' = fetchCalls + 1)
    ]_vars

C1_Witness == lastCall = "skipped" /\ running /\ pc = "send" /\ calls >= 3

\* C2: no target is notified twice of the same balance change of an account
\* (within one process life, so that only send and write failures are in
\* play): every delivery <<account, target, change, epoch>> happens once.
C2_ExactlyOncePerChange == \A k \in DOMAIN log : log[k] <= 1

\* C3: a change that was notified to a target before a restart is never
\* notified to that target again after the restart.
C3_NoResendAfterRestart ==
  \A k1, k2 \in DOMAIN log :
    (k1[1] = k2[1] /\ k1[2] = k2[2] /\ k1[3] = k2[3]) => k1[4] = k2[4]

\* C4: when #processAccount meets an account that a target matches and that
\* has no stored balance, it stores the observed balance, sends nothing and
\* goes on to write the state; and nothing is sent while the state is being
\* written.
C4_BaselineIsStoredSilently ==
  [][ /\ ( /\ pc = "account" /\ RunStep
           /\ selectTargets(accounts[idx].id) # <<>>
           /\ StoreReadable
           /\ accounts[idx].id \notin DOMAIN Stored )
         => /\ accounts[idx].id \in DOMAIN stateMem'
            /\ stateMem'[accounts[idx].id] = accounts[idx].balance
            /\ log' = log
            /\ pc' = "write"
      /\ (pc = "write" /\ branch = "baseline") => log' = log
    ]_vars

C4_Witness ==
  /\ pc = "write" /\ branch = "baseline" /\ log = EmptyDoc
  /\ accounts[idx].balance = 0
  /\ stateMem[accounts[idx].id] = 0

C6_ToleranceBranches ==
  [][ /\ ( /\ pc = "account" /\ RunStep
           /\ selectTargets(accounts[idx].id) # <<>>
           /\ StoreReadable
           /\ accounts[idx].id \in DOMAIN Stored )
         => LET id == accounts[idx].id
                c == accounts[idx].balance
                p == Stored[id]
            IN IF Abs(c - p) < Threshold
                 THEN /\ log' = log
                      /\ pc' # "send"
                      /\ stateMem'[id] = c
                      /\ stateFile' = stateFile
                      /\ (c # p) => pc' = "write"
                      /\ (c = p) => pc' # "write"
                 ELSE /\ pc' = "send" /\ tgt' = 1
                      /\ stateMem'[id] = p
                      /\ log' = log
      /\ (pc = "write" /\ branch = "refresh") => log' = log
    ]_vars

C6_Witness ==
  /\ pc = "write" /\ branch = "refresh"
  /\ stateFile.ok /\ accounts[idx].id \in DOMAIN stateFile.accounts
  /\ Abs(stateFile.accounts[accounts[idx].id] - accounts[idx].balance) = 1
  /\ stateMem[accounts[idx].id] = accounts[idx].balance

\* the config document after the first n calls, applied one after another
RECURSIVE ExpectedFile(_)
ExpectedFile(n) ==
  IF n = 0 THEN [exists |-> FALSE, doc |-> EmptyDoc]
  ELSE LET before == ExpectedFile(n - 1)
           current == IF before.exists THEN applyDefaults(before.doc)
                      ELSE defaultConfigTemplate
       IN IF updPc[n] = "ok"
            THEN [exists |-> TRUE,
                  doc |-> WritePayload(runUpdater(updMut[n], current))]
            ELSE before

ExpectedInput(n) ==
  IF ExpectedFile(n - 1).exists THEN applyDefaults(ExpectedFile(n - 1).doc)
  ELSE defaultConfigTemplate

\* C7: the read-modify-write of an update starts only when every update
\* called before it has settled; each updater is given the document left by
\* the calls before it; and when all calls have settled the document on
\* disk is the one obtained by applying the updaters one after another in
\* call order.
C7_UpdatesApplyInCallOrder ==
  /\ \A j, k \in 1..Len(updPc) :
       (j < k /\ updPc[k] # "queued") => Settled(j)
  /\ \A k \in 1..Len(updPc) :
       updPc[k] \in {"mutated", "ok", "err"} => updInput[k] = ExpectedInput(k)
  /\ (\A k \in 1..Len(updPc) : Settled(k))
       => cfgFile = ExpectedFile(Len(updPc))

C7_Witness ==
  /\ Len(updPc) = 3 /\ cfgOverlap
  /\ \A k \in 1..3 : updPc[k] = "ok"
  /\ updMut[1].op = "access" /\ updMut[2].op = "targets"
  /\ updMut[3].op = "access"
  /\ cfgFile.doc.accessUrl = "u2"
  /\ Len(cfgFile.doc.targets) = 1

\* ---------------------------------------------------------------------
\* C8: each of the three persisted documents (config, balance state,
\* response cache) is written to a temporary file with owner-only
\* permissions and renamed over its path, so that the file at the path is
\* never partial JSON - not while a write is in progress and not after a
\* crash during one - and is only ever readable by its owner.
C8_DocumentsAreWholeAndPrivate ==
  \A d \in Documents :
    /\ disk[d].state # "partial"
    /\ disk[d].state = "full" => disk[d].mode = "owner"

\* ---------------------------------------------------------------------
\* C9 (as stated): with a cache TTL above zero, a fetchAccounts call of an
\* api instance for an account-id set that the instance fetched successfully
\* at most TTL ago issues no upstream request and returns the cached
\* accounts.
FetchStarts == Len(fetches') = Len(fetches) + 1
Started == fetches'[Len(fetches')]

FreshlyFetched(key) ==
  key \in DOMAIN lastOk /\ now - lastOk[key].time <= cacheTtl

ServedFromCache ==
  /\ httpCalls' = httpCalls
  /\ Started.pc = "done"
  /\ Started.src = "cache"
  /\ Started.value = cacheEntries'[Started.key].value

C10_ZeroTtlBypassesCache ==
  [][cacheTtl = 0 =>
       /\ cacheDisk' = cacheDisk
       /\ cacheInit' = cacheInit
       /\ cacheEntries' = cacheEntries
       /\ FetchStarts => (httpCalls' = httpCalls + 1 /\ Started.pc = "http")
    ]_vars

C10_Witness ==
  /\ cacheTtl = 0
  /\ hasCacheFile
  /\ cacheDisk = [exists |-> TRUE, ok |-> TRUE, entries |-> OldCacheDoc]
  /\ ~cacheInit
  /\ now = 0
  /\ httpCalls = 2
  /\ Len(fetches) = 2
  /\ \A c \in 1..2 :
       /\ fetches[c].key = <<>>
       /\ fetches[c].pc = "done"
       /\ fetches[c].src = "network"

\* ---------------------------------------------------------------------
\* C11: every runOnce call that is not skipped issues exactly one
\* fetchAccounts request, and no other step issues one; the request is for
\* the full list when some target names "*" or no target names an explicit
\* id, and otherwise for exactly the explicit ids of the targets, each once.
NamedIds ==
  UNION { { targets[i].accountIds[j] : j \in 1..Len(targets[i].accountIds) } :
          i \in 1..Len(targets) } \ {"", "*"}

SomeTargetNamesAll ==
  \E i \in 1..Len(targets) : \E j \in 1..Len(targets[i].accountIds) :
    targets[i].accountIds[j] = "*"

RunAccepted == calls' = calls + 1 /\ lastCall' = "started"

C11_OneFetchPerRun ==
  [][/\ RunAccepted =>
          /\ fetchCalls' = fetchCalls + 1
          /\ fetchReq'.all = (SomeTargetNamesAll \/ NamedIds = {})
          /\ ~fetchReq'.all =>
               /\ { fetchReq'.ids[i] : i \in 1..Len(fetchReq'.ids) } = NamedIds
               /\ Len(fetchReq'.ids) = Cardinality(NamedIds)
     /\ ~RunAccepted => fetchCalls' = fetchCalls
    ]_vars

C11_Witness ==
  /\ pc = "fetch"
  /\ lastCall = "started"
  /\ fetchCalls = 2
  /\ ~fetchReq.all
  /\ fetchReq.ids = <<"a1", "a2">>

\* ---------------------------------------------------------------------
\* C12: a target whose accountIds contains "*" is a recipient for every
\* account the fetch returns, also for accounts no target names: such an
\* account is never left unmatched, and when the sends for a changed account
\* have all resolved, every "*" target has been notified of that change.
NamesAll(t) == \E j \in 1..Len(t.accountIds) : t.accountIds[j] = "*"

Notified(t, account) ==
  LogCount(<<account.id, t.name, account.ver, epoch>>) >= 1

NotifiedAfter(t, account) ==
  LET key == <<account.id, t.name, account.ver, epoch>>
  IN key \in DOMAIN log' /\ log'[key] >= 1

C12_WildcardTargetGetsEveryAccount ==
  [][/\ (pc = "account" /\ epoch' = epoch /\ SomeTargetNamesAll)
          => branch' # "unmatched"
     /\ (pc = "send" /\ pc' = "write")
          => \A i \in 1..Len(targets) :
               NamesAll(targets[i]) => NotifiedAfter(targets[i], accounts[idx])
    ]_vars

C12_Witness ==
  /\ pc = "write"
  /\ branch = "change"
  /\ accounts[idx].id = "a2"
  /\ NamedIds = {"a1"}
  /\ NamesAll(targets[1])
  /\ Notified(targets[1], accounts[idx])

\* ---------------------------------------------------------------------
\* C13: sendNotification called with neither a non-blank config key nor a
\* non-empty URL rejects with the no-destination error and issues no POST.
SendStarts == Len(sends') = Len(sends) + 1
Sent == sends'[Len(sends')]

NonBlank(str) == str \notin {"", "  "}

NamesKey(arg) == "configKey" \in DOMAIN arg /\ NonBlank(arg.configKey)

NamesUrl(arg) ==
  "urls" \in DOMAIN arg /\ \E i \in 1..Len(arg.urls) : arg.urls[i] # ""

C13_NoDestinationRejectsBeforeAnyPost ==
  [][(SendStarts /\ ~NamesKey(Sent.arg) /\ ~NamesUrl(Sent.arg))
       => (Sent.pc = "nodest" /\ posts' = posts)]_vars

C13_Witness ==
  /\ Len(sends) = 2
  /\ posts = <<>>
  /\ sends[1] = [arg |-> [urls |-> <<"">>] @@ [configKey |-> "  "],
                 pc |-> "nodest"]
  /\ sends[2] = [arg |-> EmptyDoc, pc |-> "nodest"]

\* ---------------------------------------------------------------------
\* C14: a send that passes the destination check issues exactly one POST:
\* with a non-blank config key to <base>/<url-encoded key> and without a
\* urls field, also when URLs were supplied; otherwise to <base> with the
\* non-empty URLs.  No other step issues a POST.
Posted == posts'[Len(posts')]

C14_OnePostInOneMode ==
  [][/\ (SendStarts /\ Sent.pc # "nodest") =>
          /\ Len(posts') = Len(posts) + 1
          /\ SubSeq(posts', 1, Len(posts)) = posts
          /\ Posted.send = Len(sends')
          /\ IF NamesKey(Sent.arg)
               THEN /\ Posted.endpoint =
                         <<"base", encodeURIComponent(trim(Sent.arg.configKey))>>
                    /\ "urls" \notin DOMAIN Posted.payload
               ELSE /\ Posted.endpoint = <<"base">>
                    /\ "urls" \in DOMAIN Posted.payload
                    /\ Posted.payload.urls =
                         SelectSeq(Sent.arg.urls, LAMBDA u : u # "")
     /\ ~(SendStarts /\ Sent.pc # "nodest") => posts' = posts
    ]_vars

C14_Witness ==
  /\ Len(sends) = 2
  /\ Len(posts) = 2
  /\ sends[1] = [arg |-> [urls |-> <<"", "x">>] @@ [configKey |-> "k/1"],
                 pc |-> "ok"]
  /\ posts[1].endpoint = <<"base", "k%2F1">>
  /\ "urls" \notin DOMAIN posts[1].payload
  /\ sends[2] = [arg |-> [urls |-> <<"", "x">>], pc |-> "rejected"]
  /\ posts[2].endpoint = <<"base">>
  /\ posts[2].payload.urls = <<"x">>

\* ---------------------------------------------------------------------
\* C15: a matched target with neither appriseUrls nor appriseConfigKey is
\* passed over when a changed account is notified: the account's processing
\* goes on to the next matched target or, after the last one, to storing
\* the new balance.
TargetInTurn == selectTargets(accounts[idx].id)[tgt]

LacksDestination(t) ==
  /\ ~("appriseConfigKey" \in DOMAIN t /\ NonBlank(t.appriseConfigKey))
  /\ ~("appriseUrls" \in DOMAIN t
         /\ \E i \in 1..Len(t.appriseUrls) : t.appriseUrls[i] # "")

C15_TargetWithoutDestinationIsIgnored ==
  [][(/\ pc = "send"
      /\ LacksDestination(TargetInTurn)
      /\ epoch' = epoch
      /\ <<pc, idx, tgt>>' # <<pc, idx, tgt>>)
       => /\ idx' = idx
          /\ IF tgt < Len(selectTargets(accounts[idx].id))
               THEN pc' = "send" /\ tgt' = tgt + 1
               ELSE /\ pc' = "write"
                    /\ getLastBalance(stateMem', accounts[idx].id)
                         = <<accounts[idx].balance>>
    ]_vars

\* ---------------------------------------------------------------------
\* C16: a fetch whose request is answered with a non-2xx status, or with a
\* body that has no accounts array, rejects - with the status code and body
\* in the first case, with the malformed-response error in the second -
\* after exactly one HTTP request for the call, and leaves the cache as it
\* was.
RejectsHere(c) == fetches[c].pc = "http" /\ fetches'[c].pc = "failed"

AnsweredBadly(c) ==
  /\ fetches'[c].response.kind = "http"
  /\ ~fetches'[c].response.accounts

C16_BadResponseRejectsWithoutRetry ==
  [][\A c \in 1..Len(fetches) :
       /\ (RejectsHere(c) /\ AnsweredBadly(c)) =>
            /\ IF fetches'[c].response.status = 200
                 THEN fetches'[c].error.kind = "malformed"
                 ELSE /\ fetches'[c].error.kind = "status"
                      /\ fetches'[c].error.status = fetches'[c].response.status
                      /\ fetches'[c].error.body = fetches'[c].response.body
            /\ fetches'[c].requests = 1
            /\ httpCalls' = httpCalls
            /\ cacheEntries' = cacheEntries
            /\ cacheDisk' = cacheDisk
       /\ fetches[c].pc = "failed" => fetches'[c] = fetches[c]
       /\ fetches'[c].requests <= 1
    ]_vars

C16_Witness ==
  /\ CacheEnabled
  /\ Len(fetches) = 2
  /\ httpCalls = 2
  /\ fetches[1].pc = "done" /\ fetches[1].src = "network"
  /\ fetches[2].key = fetches[1].key
  /\ fetches[2].pc = "failed"
  /\ fetches[2].error = [kind |-> "status", status |-> 500, body |-> "oops"]
  /\ fetches[2].requests = 1
  /\ cacheEntries[fetches[2].key].value = fetches[1].value
  /\ cacheDisk.entries = cacheEntries

\* ---------------------------------------------------------------------
\* C17: the targets the Config Store has persisted read back sanitized: the
\* name, the appriseConfigKey and every list entry trimmed, accountIds and
\* appriseUrls without blank or repeated entries, and no empty appriseUrls
\* or blank appriseConfigKey field; and writing targets that are the
\* read-back ones leaves the persisted targets as they were.
IsTrimmed(str) == str \notin {" u2 ", " T1 ", " a1 ", " k1 ", " x ", "  "}

IsCleanList(list) ==
  /\ \A i \in 1..Len(list) : list[i] # "" /\ IsTrimmed(list[i])
  /\ \A i, j \in 1..Len(list) : i # j => list[i] # list[j]

IsSanitized(t) ==
  /\ IsTrimmed(t.name)
  /\ IsCleanList(t.accountIds)
  /\ "appriseUrls" \in DOMAIN t
       => (t.appriseUrls # <<>> /\ IsCleanList(t.appriseUrls))
  /\ "appriseConfigKey" \in DOMAIN t
       => (t.appriseConfigKey # "" /\ IsTrimmed(t.appriseConfigKey))

ReadBack == ReadConfig.targets

WritesTargets(k) ==
  /\ updPc[k] = "mutated"
  /\ updPc'[k] = "ok"
  /\ updMut[k].op = "targets"

C17_TargetsAreSanitizedIdempotently ==
  /\ [](\A i \in 1..Len(ReadBack) : IsSanitized(ReadBack[i]))
  /\ [][\A k \in 1..Len(updPc) :
          (WritesTargets(k) /\ cfgFile.exists /\ updMut[k].targets = ReadBack)
            => cfgFile'.doc.targets = cfgFile.doc.targets]_vars

C17_Witness ==
  /\ Len(updPc) = 2
  /\ updPc[1] = "ok" /\ updPc[2] = "ok"
  /\ updMut[1].op = "targets"
  /\ updMut[1].targets # <<>>
  /\ updMut[1].targets[1].name = " T1 "
  /\ updMut[2].op = "targets"
  /\ updMut[2].targets = ReadBack
  /\ ReadBack = << [name |-> "T1", accountIds |-> <<"a1">>,
                    appriseConfigKey |-> "k1"] >>

\* ---------------------------------------------------------------------
\* C18 (as stated): every persisted notification target has a usable
\* destination, a non-empty appriseConfigKey or a non-empty appriseUrls
\* list.
HasUsableDestination(t) ==
  \/ "appriseConfigKey" \in DOMAIN t /\ t.appriseConfigKey # ""
  \/ "appriseUrls" \in DOMAIN t /\ t.appriseUrls # <<>>

PersistedTargets == IF cfgFile.exists THEN cfgFile.doc.targets ELSE <<>>

C18_PersistedTargetsHaveDestination ==
  \A i \in 1..Len(PersistedTargets) : HasUsableDestination(PersistedTargets[i])

\* C18 (amended): every destination field a persisted target carries is
\* usable - appriseConfigKey non-empty, appriseUrls a non-empty list - while
\* a target with neither field can be persisted.
C18_PersistedDestinationsAreUsable ==
  \A i \in 1..Len(PersistedTargets) :
    /\ "appriseConfigKey" \in DOMAIN PersistedTargets[i]
         => PersistedTargets[i].appriseConfigKey # ""
    /\ "appriseUrls" \in DOMAIN PersistedTargets[i]
         => PersistedTargets[i].appriseUrls # <<>>

C18_Witness ==
  /\ Len(updPc) = 2
  /\ updPc[1] = "ok" /\ updPc[2] = "ok"
  /\ updMut[1].op = "targets"
  /\ updMut[1].targets # <<>>
  /\ updMut[1].targets[1].name = " T1 "
  /\ updMut[2].op = "targets"
  /\ updMut[2].targets # <<>>
  /\ updMut[2].targets[1].name = "T3"
  /\ PersistedTargets = << [name |-> "T3", accountIds |-> <<"a2">>] >>

\* ---------------------------------------------------------------------
\* C19: setSimplefinAccess with an empty or whitespace-only URL is rejected
\* before anything else happens: the rejecting call leaves the config
\* document, the chain of pending updates and every update in it as they
\* were, and no update that would store a blank access URL is ever enqueued.
C19_BlankAccessUrlIsRejectedFirst ==
  /\ [][cfgRejected' # cfgRejected =>
          /\ cfgRejected' = cfgRejected + 1
          /\ UNCHANGED << cfgFile, updMut, updPc, updLocal, updInput >>]_vars
  /\ [](\A k \in 1..Len(updMut) :
          updMut[k].op = "access" => updMut[k].url \notin {"", "  "})

C19_Witness ==
  /\ cfgRejected = 2
  /\ Len(updPc) = 2
  /\ updPc[1] = "ok"
  /\ updPc[2] = "read"
  /\ updMut[1].op = "access"
  /\ cfgFile.exists
  /\ cfgFile.doc.accessUrl = "u2"


\* a fetchAccounts call that has returned accounts
Returned(c) == fetches[c].pc = "done"

\* C20: a fetchAccounts call is served from the access URL that was current
\* when it was made: the accounts it returns were obtained with that URL,
\* never with one that setAccessUrl has replaced before the call
C20_FetchIsServedFromCurrentAccessUrl ==
  \A c \in 1..Len(fetches) :
    Returned(c) => fetches[c].value.url = fetches[c].url


\* ---------------------------------------------------------------------
\* the account whose setLastBalance is waiting for writeStateFile
WritingFor(a) == pc = "write" /\ accounts[idx].id = a

\* this step calls setLastBalance for a
SetsFor(a) == pc' = "write" /\ pc # "write" /\ accounts[idx].id = a

\* what getLastBalance(a) does on a store opened now on the state file: it
\* returns a value, or throws when the document does not parse
Returns(value) == [throws |-> FALSE, value |-> value]
ReopenedGet(file, a) ==
  IF file.ok THEN Returns(getLastBalance(file.accounts, a))
             ELSE [throws |-> TRUE, value |-> <<>>]

\* C21: after setLastBalance(id, v) resolves, getLastBalance(id) returns v on
\* the same store and on any store opened later on the same file, until the
\* next setLastBalance for id.  Step by step: a resolved setLastBalance
\* leaves the in-memory state on the file; what the same store returns for
\* an id changes only when setLastBalance is called for that id; and what a
\* store opened later returns for an id changes only while a setLastBalance
\* for that id is writing, or to the value this store already holds for it.
C21_SetThenGetRoundTrip ==
  [][ /\ (pc = "write" /\ epoch' = epoch /\ calls' = calls /\ runClean')
         => /\ stateFile' = [ok |-> TRUE, accounts |-> stateMem]
            /\ stateMem' = stateMem
      /\ \A a \in AccountIds :
           /\ (loaded = "yes" /\ epoch' = epoch /\ a \in DOMAIN stateMem)
                => \/ getLastBalance(stateMem', a) = getLastBalance(stateMem, a)
                   \/ SetsFor(a)
           /\ (stateFile.ok /\ a \in DOMAIN stateFile.accounts)
                => \/ ReopenedGet(stateFile', a) = ReopenedGet(stateFile, a)
                   \/ WritingFor(a)
                   \/ /\ a \in DOMAIN stateMem
                      /\ ReopenedGet(stateFile', a)
                           = Returns(getLastBalance(stateMem, a))
    ]_vars


\* ---------------------------------------------------------------------
\* the bodies the spec gives for some changes: previous, current, the signed
\* delta and the new balance as they appear in the body
BodyExamples ==
  { << 2000000, 3010000, "+$50.50", "$150.50" >>,
    << 3010000, 2000000, "-$50.50", "$100.00" >>,
    << 0, -500000, "-$25.00", "-$25.00" >>,
    << -500000, 24691200, "+$1,259.56", "$1,234.56" >>,
    << 0, 100, "+$0.01", "$0.01" >>,
    << 2000000, 1999900, "-$0.01", "$100.00" >> }

\* C22: for a genuine change from the stored balance p to the current
\* balance c, each notification body carries the currency-formatted |c - p|
\* prefixed with "+" when c > p and "-" when c < p, together with the
\* formatted c; no more than one notification is built per matched target
\* (p = 100.00, c = 150.50 gives "+$50.50" and "$150.50").
C22_BodyCarriesSignedDeltaAndBalance ==
  /\ Len(composed) <= matchedCount
  /\ \A i \in 1..Len(composed) :
       LET body == composed[i].body
           p == previousBalance
           c == currentBalance
       IN /\ p # c
          /\ c > p => body.signedDelta = "+" \o formatCurrency(c - p)
          /\ c < p => body.signedDelta = "-" \o formatCurrency(p - c)
          /\ body.formattedBalance = formatCurrency(c)
          /\ \A e \in BodyExamples :
               (e[1] = p /\ e[2] = c)
                 => body.signedDelta = e[3] /\ body.formattedBalance = e[4]

\* the spec's example: 100.00 to 150.50 with one target, one notification
C22_Witness ==
  /\ previousBalance = 2000000
  /\ currentBalance = 3010000
  /\ matchedCount = 1
  /\ Len(composed) = 1
  /\ composed[1].body.signedDelta = "+$50.50"
  /\ composed[1].body.formattedBalance = "$150.50"


\* ---------------------------------------------------------------------
\* the account in turn and its matched targets
Current == accounts[idx]
Matched == selectTargets(Current.id)

\* this step delivers the notification to the t-th matched target
Delivered(t) ==
  LET key == << Current.id, Matched[t].name, Current.ver, epoch >>
  IN key \in DOMAIN log' /\ log'[key] = LogCount(key) + 1

\* C23: for an account with a genuine change, within one run the new
\* balance is written to the state store exactly once, and only after the
\* send to every matched target has completed successfully; no state write
\* for that account happens before or between those sends.
\* Step by step: the stored state does not change while the sends are under
\* way, setLastBalance is called in the step that delivers to the last
\* matched target and in no other, and then the run moves on.
C23_StateWriteFollowsAllSends ==
  [][ /\ (pc = "account" /\ pc' = "send")
         => /\ tgt' = 1
            /\ stateFile' = stateFile
            /\ getLastBalance(stateMem', Current.id) # << Current.balance >>
      /\ (pc = "send" /\ RunStep)
         => /\ stateFile' = stateFile
            /\ pc' = "send" => stateMem' = stateMem
            /\ tgt' \in {tgt, tgt + 1, 0}
            /\ tgt' = tgt + 1 => (pc' = "send" /\ Delivered(tgt))
            /\ pc' = "write"
                 => /\ tgt = Len(Matched)
                    /\ Delivered(tgt)
                    /\ stateMem' = setLastBalance(stateMem, Current.id,
                                                  Current.balance)
            /\ (tgt = Len(Matched) /\ Delivered(tgt)) => pc' = "write"
            /\ pc' \notin {"send", "write"}
                 => (stateMem' = stateMem /\ log' = log)
      /\ (pc = "write" /\ branch = "change" /\ RunStep)
         => /\ pc' \notin {"write", "send"}
            /\ stateMem' = stateMem
            /\ pc' = "account" => idx' = idx + 1
    ]_vars

\* both matched targets were notified and the write of the new balance is
\* under way
C23_Witness ==
  /\ pc = "write"
  /\ branch = "change"
  /\ Len(Matched) = 2
  /\ \A t \in 1..2 :
       LogCount(<< Current.id, Matched[t].name, Current.ver, epoch >>) = 1
  /\ getLastBalance(stateMem, Current.id) = << Current.balance >>
  /\ stateFile.ok
  /\ getLastBalance(stateFile.accounts, Current.id) # << Current.balance >>


\* ---------------------------------------------------------------------
\* a step of the per-account loop of the run in flight
LoopStep == pc \in {"account", "send", "write"} /\ RunStep

\* this step raises an error out of #processAccount
RaisesError == LoopStep /\ runClean /\ ~runClean'

\* C24: an error raised while one account is processed (state store or
\* notification failure) does not end the run: every remaining account is
\* processed in the order of the fetch, runOnce does not reject and the run
\* completes as a normal, non-skipped run.  Every step of the loop keeps the
\* fetched list, stays on the account in turn or moves to the next one, and
\* ends the run only after the last account, with the result true.
C24_AccountErrorsAreIsolated ==
  [][ /\ LoopStep
         => /\ accounts' = accounts
            /\ runResult' \in {"pending", "true"}
            /\ idx' \in {idx, idx + 1, 0}
            /\ idx' = idx + 1 => (pc' = "account" /\ idx' <= Len(accounts))
            /\ idx' = 0
                 => /\ idx = Len(accounts)
                    /\ pc' = "idle"
                    /\ runResult' = "true"
                    /\ ~running'
            /\ idx' # 0 => (running' /\ runResult' = "pending")
      /\ RaisesError
         => IF idx < Len(accounts)
              THEN pc' = "account" /\ idx' = idx + 1
              ELSE pc' = "idle" /\ runResult' = "true"
    ]_vars

\* the send for the first account failed and the second account was
\* processed after it, in a run that completed normally
C24_Witness ==
  /\ pc = "idle"
  /\ runResult = "true"
  /\ ~runClean
  /\ Len(accounts) = 2
  /\ branch = "same"
  /\ log = EmptyDoc
  /\ loaded = "yes"
  /\ accounts[1].id \in DOMAIN stateMem
  /\ stateMem[accounts[1].id] # accounts[1].balance


\* ---------------------------------------------------------------------
\* a step of the call is still in progress
InProgress(r) ==
  pingRuns[r].pc \in {"startPing", "fetch", "account", "endPing"}

\* C25: the running guard clears only after the run has completed all of
\* its work: while any step of a run (start ping, fetch, per-account
\* processing, end-of-run ping) is in progress, isRunning() is true and a new
\* runOnce call is skipped.
C25_GuardCoversTheWholeRun ==
  /\ (\E r \in 1..Len(pingRuns) : InProgress(r)) => pingRunning
  /\ Cardinality({r \in 1..Len(pingRuns) : InProgress(r)}) <= 1

\* the monitors with a balance run in flight
RunsInFlight == {m \in 1..Len(monitors) : monitors[m].running}

\* the cron tasks that are started and not stopped
ActiveTasks == {t \in 1..Len(tasks) : tasks[t].active}

\* no reload() call is in progress
ReloadsSettled ==
  \A r \in 1..Len(reloads) : reloads[r].pc \in {"done", "rejected"}

\* C26: at most one balance run is in flight in the whole service at any
\* time, reload() during a run included: the run the newly built monitor
\* starts at once never overlaps a run still in flight on the monitor it
\* replaced.
C26_OneRunInFlightAcrossReload == Cardinality(RunsInFlight) <= 1

\* C27: once every reload() call on the service has completed, at most one
\* cron task is active and it is the one held in this.task: no task created
\* by one reload keeps firing after another reload has completed.
C27_OneActiveTaskAfterReloads ==
  ReloadsSettled => /\ Cardinality(ActiveTasks) <= 1
                    /\ \A t \in ActiveTasks : t = task

\* the step in which the upstream fetch of the run in flight throws
FetchThrew == pc = "fetch" /\ runResult' = "rejected"

\* C28: when the upstream fetch throws, runOnce() rejects without another
\* fetch in the same call, nothing is sent and no state is written in that
\* step, the monitor is idle afterwards, and the next runOnce() call after a
\* rejected run is accepted and fetches as usual.
C28_FetchFailureRejectsAndReturnsToIdle ==
  [][ /\ FetchThrew => /\ pc' = "idle" /\ ~running'
                       /\ fetchCalls' = fetchCalls
                       /\ log' = log
                       /\ stateMem' = stateMem /\ stateFile' = stateFile
      /\ (runResult = "rejected" /\ calls' = calls + 1)
           => /\ lastCall' = "started" /\ running' /\ pc' = "fetch"
              /\ fetchCalls' = fetchCalls + 1 ]_vars

\* a fetch has thrown in a call made after an earlier run sent notifications
C28_Witness ==
  /\ runResult = "rejected" /\ pc = "idle" /\ ~running
  /\ calls >= 2 /\ DOMAIN log # {}

\* ---------------------------------------------------------------------
\* a send for the account in turn fails in this step
SendFailed == pc = "send" /\ RunStep /\ pc' \notin {"send", "write"}

\* the store holds a balance for the account from which its reported
\* balance differs by the threshold or more
Detectable(mem, account) ==
  LET previous == getLastBalance(mem, account.id)
  IN previous # <<>> /\ ~IsSubThreshold(account.balance - previous[1])

\* C29: when the send to a matched target fails for an account, the stored
\* balance of that account stays at its previous value, in memory and on
\* file, nothing else changes it until the account is processed again, and
\* an account whose reported balance still differs from the stored one is
\* taken as changed when it is processed: the same change is detected again
\* on the next run.
C29_FailedSendKeepsPreviousBalance ==
  [][ /\ SendFailed
         => /\ stateMem' = stateMem
            /\ stateFile' = stateFile
            /\ Detectable(stateMem', Current)
      /\ (RunStep /\ stateMem' # stateMem /\ loaded = "yes")
         => /\ pc \in {"account", "send"}
            /\ \A id \in AccountIds \ {Current.id} :
                 getLastBalance(stateMem', id) = getLastBalance(stateMem, id)
      /\ (pc = "account" /\ RunStep /\ loaded = "yes"
            /\ Matched # <<>> /\ Detectable(stateMem, Current))
         => /\ pc' = "send" /\ branch' = "change"
            /\ stateMem' = stateMem
    ]_vars

\* a run after one in which a send for this account failed: the account is
\* reported with the same balance, nothing was delivered for it, and the
\* change is detected again
C29_Witness ==
  /\ pc = "send" /\ branch = "change" /\ calls >= 2 /\ epoch = 0
  /\ prevRun.done /\ ~prevRun.clean
  /\ \E k \in 1..Len(prevRun.accounts) : prevRun.accounts[k] = Current
  /\ tgt = 1
  /\ hasDestination(notificationArg(Matched[1]))
  /\ \A t \in 1..Len(Matched) :
       LogCount(<< Current.id, Matched[t].name, Current.ver, epoch >>) = 0

\* ---------------------------------------------------------------------
\* update call k rejects in this step
Rejects(k) == updPc[k] # "err" /\ updPc'[k] = "err"

\* C30: when the updater or the write of an update() fails, that call
\* rejects and leaves the persisted document as it was; an update queued
\* behind settled calls, failed ones included, can start, reads the document
\* left by the latest successful write, and rejects only when its own
\* updater throws or its own write fails.
C30_FailedUpdateIsIsolated ==
  [][ \A k \in 1..Len(updPc) :
        /\ Rejects(k)
             => /\ cfgFile' = cfgFile
                /\ \/ updPc[k] = "read" /\ updMut[k].op = "throw"
                   \/ updPc[k] = "mutated"
        /\ (updPc[k] = "queued" /\ \A j \in 1..(k - 1) : Settled(j))
             => /\ ENABLED PerformRead
                /\ cfgFile = ExpectedFile(k - 1)
        /\ (updPc[k] = "queued" /\ updPc'[k] # "queued")
             => /\ updPc'[k] = "read"
                /\ updLocal'[k] = ExpectedInput(k)
        /\ (updPc[k] = "read" /\ updMut[k].op # "throw"
              /\ updPc'[k] # "read")
             => updPc'[k] = "mutated"
    ]_vars

\* the first update was written, the second rejected, and the third was
\* given the document of the first and was written
C30_Witness ==
  /\ Len(updPc) = 3
  /\ updPc[1] = "ok" /\ updPc[2] = "err" /\ updPc[3] = "ok"
  /\ updMut[1].op = "access" /\ updMut[2].op # "throw"
  /\ updMut[3].op = "targets"
  /\ updInput[3].accessUrl = updMut[1].url
  /\ cfgFile.doc.accessUrl = updMut[1].url
  /\ cfgFile.doc.targets = normalizeTargets(updMut[3].targets)

\* ---------------------------------------------------------------------
\* C31: a failure to read the response cache is treated as a miss: the
\* fetchAccounts call goes on to a request to the bridge and is not rejected
\* with the read error of the cache store.
C31_CacheReadFailureIsAMiss ==
  \A c \in 1..Len(fetches) :
    /\ fetches[c].error.kind # "cacheRead"
    /\ fetches[c].src = "cache" => fetches[c].pc = "done"

\* ---------------------------------------------------------------------
\* the bridge answers call c with an accounts array in this step
Answered(c) ==
  fetches[c].response = NoResponse /\ fetches'[c].response = GoodResponse

\* C32: with caching enabled, a fetchAccounts call is served from the cache
\* only when the entry of its key is at most TTL old (now - timestamp <= TTL)
\* and an older entry sends the call to the bridge; an answer with accounts
\* replaces the value and the timestamp of the entry of that key and leaves
\* the other entries; and the entries change in no other step once the
\* cache file was read, so that an entry is always that of the latest
\* answered fetch for its key.
C32_EntryExpiresAndIsReplaced ==
  [][ /\ (FetchStarts /\ Started.src = "cache" /\ Started.pc = "done")
         => /\ CacheEnabled
            /\ Started.key \in DOMAIN LoadedEntries
            /\ now - LoadedEntries[Started.key].timestamp <= cacheTtl
            /\ Started.value = LoadedEntries[Started.key].value
            /\ cacheEntries' = LoadedEntries
      /\ (FetchStarts /\ CacheEnabled /\ ~CacheReadRejects
            /\ Started.key \in DOMAIN LoadedEntries
            /\ now - LoadedEntries[Started.key].timestamp > cacheTtl)
         => /\ Started.pc = "http"
            /\ httpCalls' = httpCalls + 1
      /\ \A c \in 1..Len(fetches) :
           (Answered(c) /\ CacheEnabled)
             => /\ cacheEntries'[fetches[c].key] =
                     [value |-> [key |-> fetches[c].key, rev |-> bridgeRev,
                                 url |-> fetches[c].url],
                      timestamp |-> now]
                /\ \A k \in DOMAIN cacheEntries \ {fetches[c].key} :
                     cacheEntries'[k] = cacheEntries[k]
      /\ (cacheInit /\ cacheEntries' # cacheEntries)
         => \E c \in 1..Len(fetches) : Answered(c)
    ]_vars

\* an entry was served at the age of exactly TTL, then found expired by the
\* next call for its key, whose answer replaced its value and timestamp
C32_Witness ==
  /\ cacheTtl = 1 /\ hasCacheFile /\ now = 2
  /\ Len(fetches) = 2
  /\ fetches[1].src = "cache" /\ fetches[1].pc = "done" /\ fetches[1].at = 1
  /\ fetches[2].src = "network" /\ fetches[2].pc = "done"
  /\ fetches[2].key = fetches[1].key /\ fetches[2].at = 2
  /\ fetches[2].key \in DOMAIN cacheEntries
  /\ cacheEntries[fetches[2].key] =
       [value |-> fetches[2].value, timestamp |-> 2]
  /\ fetches[2].value # fetches[1].value

\* ---------------------------------------------------------------------
\* C33: the request of a fetchAccounts call carries one account parameter
\* per distinct trimmed id, in sorted order, so that two calls whose id sets
\* are equal have the same request as well as the same cache key.
C33_WireRequestIsSorted ==
  \A c \in 1..Len(fetches) :
    /\ fetches[c].wire = sort(fetches[c].wire)
    /\ \A d \in 1..Len(fetches) :
         fetches[d].key = fetches[c].key => fetches[d].wire = fetches[c].wire

\* ---------------------------------------------------------------------
\* the step in which the fetch of the run in flight resolves with an empty
\* list or with a value that is not a list
FetchedNothing == pc = "fetch" /\ runResult' = "false"

\* C34: when the fetch returns an empty list or a non-list value, the run
\* ends without an error (runOnce resolves with false), nothing is sent and
\* no state is written, and the monitor is idle, so that the next runOnce
\* call is accepted.
C34_EmptyFetchEndsRunQuietly ==
  [][ /\ FetchedNothing
         => /\ pc' = "idle" /\ ~running'
            /\ log' = log
            /\ stateMem' = stateMem /\ stateFile' = stateFile
            /\ loaded' = loaded
      /\ (pc = "fetch" /\ RunStep /\ pc' = "idle")
         => runResult' \in {"false", "rejected"}
      /\ (runResult = "false" /\ calls' = calls + 1)
         => (lastCall' = "started" /\ running' /\ pc' = "fetch")
    ]_vars

\* a run ended on an empty answer after an earlier run had stored balances
\* and sent notifications, all of which are kept
C34_Witness ==
  /\ runResult = "false" /\ pc = "idle" /\ ~running
  /\ calls >= 2
  /\ DOMAIN stateMem # {}
  /\ DOMAIN log # {}

\* ---------------------------------------------------------------------
\* the account in turn is one that no target matches
Unwatched == pc = "account" /\ RunStep /\ Matched = <<>>

\* C35: an account that no target matches, by its id or by "*", causes no
\* read and no write of the state store and no notification, and the run
\* moves on; no entry is ever stored for an account no target matches.
C35_UnwatchedAccountIsSkipped ==
  [][ /\ Unwatched
         => /\ loaded' = loaded
            /\ stateMem' = stateMem /\ stateFile' = stateFile
            /\ log' = log
            /\ pc' \in {"account", "idle"}
            /\ pc' = "account" => idx' = idx + 1
            /\ runClean' = runClean
      /\ \A id \in AccountIds :
           (id \in DOMAIN stateMem' \/ id \in DOMAIN stateFile'.accounts)
             => selectTargets(id) # <<>>
    ]_vars

\* a run over two accounts that no target matches has ended, with nothing
\* loaded, stored or sent
C35_Witness ==
  /\ targets = <<>>
  /\ pc = "idle" /\ runResult = "true" /\ branch = "unmatched"
  /\ prevRun.done /\ Len(prevRun.accounts) = 2
  /\ loaded = "no"
  /\ DOMAIN stateMem = {} /\ DOMAIN log = {}

\* ---------------------------------------------------------------------
\* a JSON value that is a number: a finite number, or a string that spells
\* one
IsNumeric(value) ==
  IF value.t = "number" THEN value.finite
  ELSE IF value.t = "string" THEN value.s \in {"150.50"}
  ELSE FALSE

\* an account with no id, or with neither a numeric available-balance nor a
\* numeric balance
Unusable(account) ==
  \/ lacksId(account)
  \/ ~IsNumeric(account.available) /\ ~IsNumeric(account.balance)

\* C36: an account with no id, or with neither a numeric available-balance
\* nor a numeric balance, is skipped without an error: the step that handles
\* it changes no stored balance and sends no notification, and the loop
\* goes on to the next account.
C36_UnusableAccountIsSkipped ==
  [][ (at <= Len(listed) /\ at' = at + 1 /\ Unusable(listed[at]))
        => /\ kept' = kept
           /\ notices' = notices
           /\ outcomes'[at] \in {"no id", "no balance"}
    ]_vars

\* ---------------------------------------------------------------------
\* the process shuts down in this step and its save() resolved
ShutDownSaved == epoch' = epoch + 1 /\ lastCall' = "saved"

\* C37: on shutdown the state store's save() completes before the process
\* exits, so that every balance recorded by a setLastBalance call made
\* before the shutdown is in the state file afterwards.
C37_ShutdownFlushesEveryBalance ==
  [][ ShutDownSaved
        => /\ stateFile'.ok
           /\ \A id \in DOMAIN stateMem :
                getLastBalance(stateFile'.accounts, id)
                  = getLastBalance(stateMem, id)
    ]_vars

\* the health check is enabled: the configured pingUrl is not blank
HealthchecksEnabled == trim(pingUrl) # ""

\* the requests call r of runOnce has sent, as the URLs requested
PingsOf(r) ==
  LET mine == SelectSeq(pings, LAMBDA p : p.run = r)
  IN  [i \in 1..Len(mine) |-> mine[i].url]

\* C38: with healthchecks enabled, every run that is not skipped sends
\* exactly one start ping before the upstream fetch and exactly one terminal
\* ping after processing, the success ping when the run did not throw and
\* the failure ping when it did; a skipped run sends no ping at all.
C38_OneStartAndOneTerminalPingPerRun ==
  HealthchecksEnabled =>
    \A r \in 1..Len(pingRuns) :
      LET start == trim(pingUrl) \o "/start"
          terminal == IF pingRuns[r].failed THEN trim(pingUrl) \o "/fail"
                                            ELSE trim(pingUrl)
      IN  CASE pingRuns[r].pc = "skipped" -> PingsOf(r) = <<>>
            [] pingRuns[r].pc \in {"startPing", "fetch", "account"} ->
                 PingsOf(r) = << start >>
            [] pingRuns[r].pc \in {"endPing", "returned", "rejected"} ->
                 PingsOf(r) = << start, terminal >>

\* a skipped run, a run that threw and a run that did not, all settled,
\* with healthchecks enabled
C38_Witness ==
  /\ HealthchecksEnabled
  /\ \E r \in 1..Len(pingRuns) : pingRuns[r].pc = "skipped"
  /\ \E r \in 1..Len(pingRuns) : pingRuns[r].pc = "rejected"
  /\ \E r \in 1..Len(pingRuns) :
       pingRuns[r].pc = "returned" /\ pingRuns[r].fetched > 0

\* consecutive balances of the path all differ by less than the threshold
Smooth(path) ==
  \A k \in 1..(Len(path) - 1) : IsSubThreshold(path[k + 1] - path[k])

\* the balances the runs have processed since the baseline or the latest
\* notification, the one being processed included
PathNow == Append(seen, reported)

====
